---------------------------- MODULE Spec2Model ----------------------------
(***************************************************************************)
(* A model of yajson: the insertion-ordered Object with its lazily built   *)
(* hash index of borrowed key views, the parser's object construction,     *)
(* the ThreadSafeJson facade, arena-aware copies, MonotonicArena and       *)
(* ArenaScope.  Each part has its own specification over the shared        *)
(* variable tuple; a part's variables stay fixed under the other           *)
(* specifications.                                                         *)
(***************************************************************************)
EXTENDS Integers, Sequences, FiniteSets, TLC

VARIABLES
    \* ---- Object (fwd.hpp / value.hpp) ----
    entries,     \* Object::entries: sequence of [key, val], insertion order
    cap,         \* capacity of the entries vector's buffer
    hasIndex,    \* index_ != nullptr
    indexMap,    \* *index_: set of records [hkey, slot, idx]: the key hashed
                 \* at insertion, the entry slot its view points into, the
                 \* mapped position
    last,        \* ghost: key |-> value last written, Absent when not present
    ub           \* undefined behaviour has been executed (end() dereferenced,
                 \* out-of-range element accessed)

VARIABLES
    \* ---- Parser::parse_object / finalize_object (parser.hpp) ----
    ptext,       \* ghost: the keys of the object text consumed so far; the
                 \* value of the i-th member is i
    pentries,    \* obj.entries: sequence of [key, val, buf]; buf is the heap
                 \* buffer of a key longer than 15 chars, 0 for an SSO key
    pcap,        \* capacity of obj.entries
    seen,        \* seen_keys: set of [hkey, live] views into entry keys
    dupAllowed,  \* opts_.allow_duplicate_keys
    pstate,      \* "parsing", "done", "dup_error" (ParseError DuplicateKey)
    pub          \* undefined behaviour executed while finalizing

VARIABLES
    \* ---- ThreadSafeJson (thread_safe.hpp) ----
    value_,      \* the stored JsonValue: [kind, size, index]; index is the
                 \* state of the stored Object's index_: "null", "filling"
                 \* (allocated, entries being added), "built", "broken"
                 \* (written by two threads at once)
    mutex_,      \* the std::shared_mutex: [readers, writer]
    tpc,         \* thread |-> position inside its ThreadSafeJson operation
    tsRace       \* a data race on the stored value has been executed

objVars == <<entries, cap, hasIndex, indexMap, last, ub>>

parseVars == <<ptext, pentries, pcap, seen, dupAllowed, pstate, pub>>

VARIABLES
    \* ---- JsonValue copies of arena-backed values (value.hpp) ----
    csrc,        \* the arena-parsed source value: a tree of [kind, flag,
                 \* node, buf, kids]; node is where the payload (string
                 \* characters, Array, Object) lives, buf the memory resource
                 \* of the element buffer, flag the kArenaFlag bit
    cactive,     \* detail::current_arena != nullptr
    ccopy,       \* the copy, NoValue before it is made
    coutside,    \* ghost: the copy was made while no arena was active
    carena,      \* the arena's storage is still valid (not reset, not freed)
    cread        \* what reading the copy back gave: "none" before the read

VARIABLES
    \* ---- MonotonicArena (arena.hpp) ----
    initial_buf_,      \* TRUE for an arena over an external buffer
    initial_size_,     \* size of the external buffer, 0 for heap-only
    ptr_,              \* offset of the allocation pointer in the current block
    end_,              \* data size of the current block
    blocks_,           \* capacities of the heap blocks, newest first
    total_allocated_,  \* what bytes_allocated() returns
    next_block_size_,
    cycleAllocs,       \* ghost: allocations since construction or reset
    afterReset         \* ghost: bytes_allocated() observed after each reset

VARIABLES
    \* ---- ArenaScope (arena.hpp) ----
    current_arena,     \* thread |-> detail::current_arena
    scopes,            \* thread |-> the live ArenaScope objects, innermost
                       \* last: [arena, prev_, by]
    lastExit           \* ghost: thread |-> how its last scope was left and
                       \* which arena that scope had activated; NoExit once
                       \* the thread has entered another scope

facadeVars == <<value_, mutex_, tpc, tsRace>>

copyVars == <<csrc, cactive, ccopy, coutside, carena, cread>>

arenaVars == <<initial_buf_, initial_size_, ptr_, end_, blocks_,
               total_allocated_, next_block_size_, cycleAllocs, afterReset>>

scopeVars == <<current_arena, scopes, lastExit>>

VARIABLES
    \* ---- Parser over a text (parser.hpp) ----
    input,       \* the text handed to parse / try_parse: a sequence of bytes
    opts,        \* the ParseOptions of the call
    alphabet,    \* the bytes the caller's texts are made of
    parsed,      \* outcome of parse(input, opts): [code, pos, depth], code
                 \* "ok" on return or the errc of the ParseError thrown
    ec           \* result<JsonValue>::ec of try_parse(input, opts); "none"
                 \* while try_parse has not been called on this input

textVars == <<input, opts, alphabet, parsed, ec>>

VARIABLES
    \* ---- serialize, then parse (serializer.hpp, parser.hpp) ----
    rvalue,      \* a Value built through the API: its nodes in the order
                 \* they were constructed, the root last
    rtext,       \* serialize(rvalue); <<>> before the call
    rback        \* parse(rtext): [code, val]; code "none" before the call

roundVars == <<rvalue, rtext, rback>>

\* N threads incrementing the integer a ThreadSafeJson holds.
VARIABLES
    start,      \* the integer the facade was constructed with
    taken,      \* per thread: what as_integer() gave the callable
    finished    \* per thread: increments completed

counterVars == <<start, taken, finished>>

\* JsonWriter over a string buffer.
VARIABLES
    stack_,          \* the open containers' states, innermost last
    wdepth_,         \* depth_
    value_written_,
    sbuf_,           \* the tokens written to the buffer
    called           \* the last call: its name, the innermost state it met, its outcome

writerVars == <<stack_, wdepth_, value_written_, sbuf_, called>>

\* utf8::validate and utf8::decode over one byte sequence.
VARIABLES
    ubytes,     \* the byte sequence
    uvalid,     \* <<what validate returned>>, empty before the call
    upos,       \* ptr of the successive decode calls (1-based)
    ucps        \* the code points decode returned so far

utf8Vars == <<ubytes, uvalid, upos, ucps>>

\* const JsonValue::operator[](key) on an object.
VARIABLES
    indexed     \* the call just made: its key, whether the key was missing,
                \* the error code thrown, the entries before the call

lookupVars == <<indexed>>

\* ArenaDocument.
VARIABLES
    root_,      \* the document's root value
    dopts,      \* the ParseOptions the caller passes
    dtext,      \* the text the caller is putting together
    dcall       \* the call just made: its name, its input, root_ before it,
                \* what Parser::try_parse gave, the code returned or thrown

docVars == <<root_, dopts, dtext, dcall>>

\* The order in which the keys of the Object were first inserted.
VARIABLES
    order       \* ghost: the surviving keys, oldest first

orderVars == <<order>>

\* Object::operator== between the Object and a second one.
VARIABLES
    compared    \* the comparison just made: whether the two objects hold
                \* the same keys and values, a == b, b == a

equalVars == <<compared>>

\* ThreadSafeJson::update(fn) with callables that may throw.
VARIABLES
    pre,         \* the stored value when the running update() took the lock
    lastThrew,   \* the last update() that returned control left by an exception
    callee       \* per thread: the callable of its update(): [byValue, throws]

throwVars == <<pre, lastThrew, callee>>

\* The same workload run on a MonotonicArena in every parse/reset cycle.
VARIABLES
    workload,    \* the allocation sizes of one cycle, in order
    grownNow,    \* the overflow block sizes requested so far in this cycle
    grownBy,     \* per finished cycle: <<block sizes requested, peak bytes>>
    peakNow      \* the greatest bytes_allocated() seen in this cycle

cycleVars == <<workload, grownNow, grownBy, peakNow>>

\* Two ThreadSafeJson objects a and b used by several threads.
VARIABLES
    mvalue,      \* per object: its value_
    mheld,       \* per object: its mutex_, [readers, writer]
    mpc,         \* per thread: where it stands in its current call
    mop,         \* per thread: the current call, [dst, src]
    mleft,       \* per thread: calls it has still to make
    crossed      \* a = std::move(b) and b = std::move(a) have been in progress together

moveVars == <<mvalue, mheld, mpc, mop, mleft, crossed>>

\* StringOutput / StreamOutput.  A run stands for the bytes of one write
\* call: [id, n] is n bytes, all of write number id.
VARIABLES
    sink,        \* "string" (StringOutput) or "stream" (StreamOutput)
    buf_,        \* the runs held in buf_[0 .. pos_)
    pos_,
    delivered,   \* the runs appended to result_ / written to os_
    written,     \* the runs of the write calls made, in call order
    olast        \* the last call: "none", "write" or "flush"

outVars == <<sink, buf_, pos_, delivered, written, olast>>

vars == <<objVars, parseVars, facadeVars, copyVars, arenaVars, scopeVars, textVars, roundVars, counterVars, writerVars, utf8Vars, lookupVars, docVars, orderVars, equalVars, throwVars, cycleVars, moveVars, outVars>>

NotObject == UNCHANGED <<parseVars, facadeVars, copyVars, arenaVars, scopeVars, textVars, roundVars, counterVars, writerVars, utf8Vars, lookupVars, docVars, orderVars, equalVars, throwVars, cycleVars, moveVars, outVars>>

NotParser == UNCHANGED <<objVars, facadeVars, copyVars, arenaVars, scopeVars, textVars, roundVars, counterVars, writerVars, utf8Vars, lookupVars, docVars, orderVars, equalVars, throwVars, cycleVars, moveVars, outVars>>

NotFacade == UNCHANGED <<objVars, parseVars, copyVars, arenaVars, scopeVars, textVars, roundVars, counterVars, writerVars, utf8Vars, lookupVars, docVars, orderVars, equalVars, throwVars, cycleVars, moveVars, outVars>>

NotCopy == UNCHANGED <<objVars, parseVars, facadeVars, arenaVars, scopeVars, textVars, roundVars, counterVars, writerVars, utf8Vars, lookupVars, docVars, orderVars, equalVars, throwVars, cycleVars, moveVars, outVars>>

NotArena == UNCHANGED <<objVars, parseVars, facadeVars, copyVars, scopeVars, textVars, roundVars, counterVars, writerVars, utf8Vars, lookupVars, docVars, orderVars, equalVars, throwVars, cycleVars, moveVars, outVars>>

NotScope == UNCHANGED <<objVars, parseVars, facadeVars, copyVars, arenaVars, textVars, roundVars, counterVars, writerVars, utf8Vars, lookupVars, docVars, orderVars, equalVars, throwVars, cycleVars, moveVars, outVars>>

NotText == UNCHANGED <<objVars, parseVars, facadeVars, copyVars, arenaVars, scopeVars, roundVars, counterVars, writerVars, utf8Vars, lookupVars, docVars, orderVars, equalVars, throwVars, cycleVars, moveVars, outVars>>

NotRound == UNCHANGED <<objVars, parseVars, facadeVars, copyVars, arenaVars, scopeVars, textVars, counterVars, writerVars, utf8Vars, lookupVars, docVars, orderVars, equalVars, throwVars, cycleVars, moveVars, outVars>>

NotCounter == UNCHANGED <<objVars, parseVars, facadeVars, copyVars, arenaVars, scopeVars, textVars, roundVars, writerVars, utf8Vars, lookupVars, docVars, orderVars, equalVars, throwVars, cycleVars, moveVars, outVars>>

NotFacadeCounter == UNCHANGED <<objVars, parseVars, copyVars, arenaVars, scopeVars, textVars, roundVars, writerVars, utf8Vars, lookupVars, docVars, orderVars, equalVars, throwVars, cycleVars, moveVars, outVars>>

NotWriter == UNCHANGED <<objVars, parseVars, facadeVars, copyVars, arenaVars, scopeVars, textVars, roundVars, counterVars, utf8Vars, lookupVars, docVars, orderVars, equalVars, throwVars, cycleVars, moveVars, outVars>>

NotUtf8 == UNCHANGED <<objVars, parseVars, facadeVars, copyVars, arenaVars, scopeVars, textVars, roundVars, counterVars, writerVars, lookupVars, docVars, orderVars, equalVars, throwVars, cycleVars, moveVars, outVars>>

NotLookup == UNCHANGED <<objVars, parseVars, facadeVars, copyVars, arenaVars, scopeVars, textVars, roundVars, counterVars, writerVars, utf8Vars, docVars, orderVars, equalVars, throwVars, cycleVars, moveVars, outVars>>

NotObjectLookup == UNCHANGED <<parseVars, facadeVars, copyVars, arenaVars, scopeVars, textVars, roundVars, counterVars, writerVars, utf8Vars, docVars, orderVars, equalVars, throwVars, cycleVars, moveVars, outVars>>

NotDoc == UNCHANGED <<objVars, parseVars, facadeVars, copyVars, arenaVars, scopeVars, textVars, roundVars, counterVars, writerVars, utf8Vars, lookupVars, orderVars, equalVars, throwVars, cycleVars, moveVars, outVars>>

NotOrder == UNCHANGED <<objVars, parseVars, facadeVars, copyVars, arenaVars, scopeVars, textVars, roundVars, counterVars, writerVars, utf8Vars, lookupVars, docVars, equalVars, throwVars, cycleVars, moveVars, outVars>>

NotObjectOrder == UNCHANGED <<parseVars, facadeVars, copyVars, arenaVars, scopeVars, textVars, roundVars, counterVars, writerVars, utf8Vars, lookupVars, docVars, equalVars, throwVars, cycleVars, moveVars, outVars>>

NotEqual == UNCHANGED <<objVars, parseVars, facadeVars, copyVars, arenaVars, scopeVars, textVars, roundVars, counterVars, writerVars, utf8Vars, lookupVars, docVars, orderVars, throwVars, cycleVars, moveVars, outVars>>

NotObjectEqual == UNCHANGED <<parseVars, facadeVars, copyVars, arenaVars, scopeVars, textVars, roundVars, counterVars, writerVars, utf8Vars, lookupVars, docVars, orderVars, throwVars, cycleVars, moveVars, outVars>>

NotThrow == UNCHANGED <<objVars, parseVars, facadeVars, copyVars, arenaVars, scopeVars, textVars, roundVars, counterVars, writerVars, utf8Vars, lookupVars, docVars, orderVars, equalVars, cycleVars, moveVars, outVars>>

NotFacadeThrow == UNCHANGED <<objVars, parseVars, copyVars, arenaVars, scopeVars, textVars, roundVars, counterVars, writerVars, utf8Vars, lookupVars, docVars, orderVars, equalVars, cycleVars, moveVars, outVars>>

NotCycle == UNCHANGED <<objVars, parseVars, facadeVars, copyVars, arenaVars, scopeVars, textVars, roundVars, counterVars, writerVars, utf8Vars, lookupVars, docVars, orderVars, equalVars, throwVars, moveVars, outVars>>

NotArenaCycle == UNCHANGED <<objVars, parseVars, facadeVars, copyVars, scopeVars, textVars, roundVars, counterVars, writerVars, utf8Vars, lookupVars, docVars, orderVars, equalVars, throwVars, moveVars, outVars>>

NotMove == UNCHANGED <<objVars, parseVars, facadeVars, copyVars, arenaVars, scopeVars, textVars, roundVars, counterVars, writerVars, utf8Vars, lookupVars, docVars, orderVars, equalVars, throwVars, cycleVars, outVars>>

NotOut == UNCHANGED <<objVars, parseVars, facadeVars, copyVars, arenaVars, scopeVars, textVars, roundVars, counterVars, writerVars, utf8Vars, lookupVars, docVars, orderVars, equalVars, throwVars, cycleVars, moveVars>>

---------------------------------------------------------------------------
(* Bounds and program constants *)

kIndexThreshold == 16

\* Filler keys 1..NumFill are only ever inserted, in ascending order.
NumFill == 15
\* The object starts as built by insert() of the fillers 1..InitFill.
InitFill == 13
\* Operated keys NumFill+1..NumFill+NumOp are inserted, overwritten, erased.
NumOp == 2
\* Appends are taken while the object holds fewer than MaxLen entries.
MaxLen == 17
\* Values written by insert are 1..MaxVal.
MaxVal == 2

Fillers == 1..NumFill
OpKeys  == (NumFill + 1)..(NumFill + NumOp)
Keys    == Fillers \cup OpKeys

NullVal  == 0      \* JsonValue{} (Type::Null)
Absent   == -1     \* ghost marker: key not in the object
NotFound == -1     \* find() returned nullptr
Garbage  == -2     \* find() returned a pointer past the live entries

---------------------------------------------------------------------------
(* Object: helpers *)

KeysOf(es) == {es[i].key : i \in 1..Len(es)}

Positions(es, k) == {i \in 1..Len(es) : es[i].key = k}

FirstPos(es, k) == CHOOSE i \in Positions(es, k) : \A j \in Positions(es, k) : i <= j

LastPos(es, k) == CHOOSE i \in Positions(es, k) : \A j \in Positions(es, k) : i >= j

EmptyMap == {}

\* use_index(): entries.size() >= kIndexThreshold
use_index(es) == Len(es) >= kIndexThreshold

\* rebuild_index(): clear, then (*index_)[view(entries[i].first)] = i for i
\* ascending.  unordered_map::operator[] keeps the key object of the first
\* insertion (a view into the first occurrence) and overwrites the mapped
\* position, so a key's record views its first entry and maps to its last.
rebuild_index(es) ==
    {[hkey |-> q, slot |-> FirstPos(es, q), idx |-> LastPos(es, q)] : q \in KeysOf(es)}

\* std::vector growth on emplace_back at full capacity.
GrowCap(c) == IF c = 0 THEN 1 ELSE 2 * c

\* emplace_back reallocates exactly when size == capacity.
Reallocates(es, c) == Len(es) = c

CapAfterPush(es, c) == IF Reallocates(es, c) THEN GrowCap(c) ELSE c

\* The bytes a stored view reads now: the key of the entry occupying the
\* slot; a slot past the live entries holds a destroyed string.
ViewLive(es, r) == r.slot <= Len(es)

ViewReads(es, r, k) == ViewLive(es, r) /\ es[r.slot].key = k

\* A destroyed string may still read as anything.
ViewMayRead(es, r, k) == ViewLive(es, r) => es[r.slot].key = k

\* index_->find(key): the positions the lookup can return, 0 for end().
\* A record hashed under k is reached for sure when its view still reads
\* k.  Otherwise the lookup misses, or lands on a record whose view now
\* reads k (bucket-dependent).
IndexHits(es, m, k) == {r \in m : r.hkey = k /\ ViewReads(es, r, k)}

IndexFind(es, m, k) ==
    IF IndexHits(es, m, k) # {}
    THEN {r.idx : r \in IndexHits(es, m, k)}
    ELSE {0} \cup {r.idx : r \in {x \in m : ViewMayRead(es, x, k)}}

\* The record a successful lookup landed on.
IndexRecords(es, m, k, p) ==
    IF IndexHits(es, m, k) # {}
    THEN {r \in IndexHits(es, m, k) : r.idx = p}
    ELSE {r \in m : ViewMayRead(es, r, k) /\ r.idx = p}

\* Linear scan: first entry with the key, 0 when none.
LinearFind(es, k) == IF Positions(es, k) = {} THEN 0 ELSE FirstPos(es, k)

\* ensure_index(): if (use_index() && !index_) rebuild_index();
EnsuredHas(es, has) == has \/ use_index(es)

EnsuredMap(es, has, m) == IF use_index(es) /\ ~has THEN rebuild_index(es) ELSE m

\* Object::find: positions it can return (0 = nullptr).
FindPos(es, has, m, k) ==
    IF use_index(es)
    THEN IndexFind(es, EnsuredMap(es, has, m), k)
    ELSE {LinearFind(es, k)}

\* What find(k) hands back: the value at the position, NotFound for
\* nullptr, Garbage for a position past the live entries.
Deref(es, p) ==
    IF p = 0 THEN NotFound
    ELSE IF p > Len(es) THEN Garbage
    ELSE es[p].val

FindResults(es, has, m, k) == {Deref(es, p) : p \in FindPos(es, has, m, k)}

RemoveAt(es, p) == [i \in 1..(Len(es) - 1) |-> IF i < p THEN es[i] ELSE es[i + 1]]

\* The filler key the next fresh insertion uses.
FillCount(es) == Cardinality(KeysOf(es) \cap Fillers)

\* Insert's inputs: an operated key with any value, or the next filler with
\* value 1.
InsertInputs(es) ==
    (OpKeys \X (1..MaxVal))
      \cup (IF FillCount(es) < NumFill THEN {<<FillCount(es) + 1, 1>>} ELSE {})

---------------------------------------------------------------------------
(* The parts a specification does not exercise stay in these states. *)

ParserIdle ==
    /\ ptext = <<>>
    /\ pentries = <<>>
    /\ pcap = 0
    /\ seen = {}
    /\ dupAllowed = TRUE
    /\ pstate = "idle"
    /\ pub = FALSE

ObjectIdle ==
    /\ entries = <<>>
    /\ cap = 0
    /\ hasIndex = FALSE
    /\ indexMap = {}
    /\ last = <<>>
    /\ ub = FALSE

FacadeIdle ==
    /\ value_ = [kind |-> "null", size |-> 0, index |-> "null"]
    /\ mutex_ = [readers |-> {}, writer |-> 0]
    /\ tpc = <<>>
    /\ tsRace = FALSE

CopyIdle ==
    /\ csrc = <<>>
    /\ cactive = FALSE
    /\ ccopy = <<>>
    /\ coutside = FALSE
    /\ carena = TRUE
    /\ cread = "none"

ArenaIdle ==
    /\ initial_buf_ = FALSE
    /\ initial_size_ = 0
    /\ ptr_ = 0
    /\ end_ = 0
    /\ blocks_ = <<>>
    /\ total_allocated_ = 0
    /\ next_block_size_ = 0
    /\ cycleAllocs = 0
    /\ afterReset = <<>>

ScopeIdle ==
    /\ current_arena = <<>>
    /\ scopes = <<>>
    /\ lastExit = <<>>

TextIdle ==
    /\ input = <<>>
    /\ opts = <<>>
    /\ alphabet = {}
    /\ parsed = <<>>
    /\ ec = "none"

RoundIdle ==
    /\ rvalue = <<>>
    /\ rtext = <<>>
    /\ rback = [code |-> "none", val |-> <<>>]

CounterIdle ==
    /\ start = 0
    /\ taken = <<>>
    /\ finished = <<>>

WriterIdle ==
    /\ stack_ = <<>>
    /\ wdepth_ = 0
    /\ value_written_ = FALSE
    /\ sbuf_ = <<>>
    /\ called = <<>>

Utf8Idle ==
    /\ ubytes = <<>>
    /\ uvalid = <<>>
    /\ upos = 0
    /\ ucps = <<>>

LookupIdle ==
    /\ indexed = <<>>

DocIdle ==
    /\ root_ = <<>>
    /\ dopts = <<>>
    /\ dtext = <<>>
    /\ dcall = <<>>

OrderIdle ==
    /\ order = <<>>

EqualIdle ==
    /\ compared = <<>>

ThrowIdle ==
    /\ pre = <<>>
    /\ lastThrew = FALSE
    /\ callee = <<>>

CycleIdle ==
    /\ workload = <<>>
    /\ grownNow = <<>>
    /\ grownBy = <<>>
    /\ peakNow = 0

MoveIdle ==
    /\ mvalue = <<>>
    /\ mheld = <<>>
    /\ mpc = <<>>
    /\ mop = <<>>
    /\ mleft = <<>>
    /\ crossed = FALSE

OutIdle ==
    /\ sink = "none"
    /\ buf_ = <<>>
    /\ pos_ = 0
    /\ delivered = <<>>
    /\ written = <<>>
    /\ olast = "none"

\* The parts other than the one a specification exercises.
IdleButObject == ParserIdle /\ FacadeIdle /\ CopyIdle /\ ArenaIdle /\ ScopeIdle /\ TextIdle /\ RoundIdle /\ CounterIdle /\ WriterIdle /\ Utf8Idle /\ LookupIdle /\ DocIdle /\ OrderIdle /\ EqualIdle /\ ThrowIdle /\ CycleIdle /\ MoveIdle /\ OutIdle

IdleButParser == ObjectIdle /\ FacadeIdle /\ CopyIdle /\ ArenaIdle /\ ScopeIdle /\ TextIdle /\ RoundIdle /\ CounterIdle /\ WriterIdle /\ Utf8Idle /\ LookupIdle /\ DocIdle /\ OrderIdle /\ EqualIdle /\ ThrowIdle /\ CycleIdle /\ MoveIdle /\ OutIdle

IdleButFacade == ObjectIdle /\ ParserIdle /\ CopyIdle /\ ArenaIdle /\ ScopeIdle /\ TextIdle /\ RoundIdle /\ CounterIdle /\ WriterIdle /\ Utf8Idle /\ LookupIdle /\ DocIdle /\ OrderIdle /\ EqualIdle /\ ThrowIdle /\ CycleIdle /\ MoveIdle /\ OutIdle

IdleButCopy == ObjectIdle /\ ParserIdle /\ FacadeIdle /\ ArenaIdle /\ ScopeIdle /\ TextIdle /\ RoundIdle /\ CounterIdle /\ WriterIdle /\ Utf8Idle /\ LookupIdle /\ DocIdle /\ OrderIdle /\ EqualIdle /\ ThrowIdle /\ CycleIdle /\ MoveIdle /\ OutIdle

IdleButArena == ObjectIdle /\ ParserIdle /\ FacadeIdle /\ CopyIdle /\ ScopeIdle /\ TextIdle /\ RoundIdle /\ CounterIdle /\ WriterIdle /\ Utf8Idle /\ LookupIdle /\ DocIdle /\ OrderIdle /\ EqualIdle /\ ThrowIdle /\ CycleIdle /\ MoveIdle /\ OutIdle

IdleButScope == ObjectIdle /\ ParserIdle /\ FacadeIdle /\ CopyIdle /\ ArenaIdle /\ TextIdle /\ RoundIdle /\ CounterIdle /\ WriterIdle /\ Utf8Idle /\ LookupIdle /\ DocIdle /\ OrderIdle /\ EqualIdle /\ ThrowIdle /\ CycleIdle /\ MoveIdle /\ OutIdle

IdleButText == ParserIdle /\ ObjectIdle /\ FacadeIdle /\ CopyIdle /\ ArenaIdle /\ ScopeIdle /\ RoundIdle /\ CounterIdle /\ WriterIdle /\ Utf8Idle /\ LookupIdle /\ DocIdle /\ OrderIdle /\ EqualIdle /\ ThrowIdle /\ CycleIdle /\ MoveIdle /\ OutIdle

IdleButRound == ParserIdle /\ ObjectIdle /\ FacadeIdle /\ CopyIdle /\ ArenaIdle /\ ScopeIdle /\ TextIdle /\ CounterIdle /\ WriterIdle /\ Utf8Idle /\ LookupIdle /\ DocIdle /\ OrderIdle /\ EqualIdle /\ ThrowIdle /\ CycleIdle /\ MoveIdle /\ OutIdle

IdleButCounter == ParserIdle /\ ObjectIdle /\ FacadeIdle /\ CopyIdle /\ ArenaIdle /\ ScopeIdle /\ TextIdle /\ RoundIdle /\ WriterIdle /\ Utf8Idle /\ LookupIdle /\ DocIdle /\ OrderIdle /\ EqualIdle /\ ThrowIdle /\ CycleIdle /\ MoveIdle /\ OutIdle

IdleButFacadeCounter == ObjectIdle /\ ParserIdle /\ CopyIdle /\ ArenaIdle /\ ScopeIdle /\ TextIdle /\ RoundIdle /\ WriterIdle /\ Utf8Idle /\ LookupIdle /\ DocIdle /\ OrderIdle /\ EqualIdle /\ ThrowIdle /\ CycleIdle /\ MoveIdle /\ OutIdle

IdleButWriter == ParserIdle /\ ObjectIdle /\ FacadeIdle /\ CopyIdle /\ ArenaIdle /\ ScopeIdle /\ TextIdle /\ RoundIdle /\ CounterIdle /\ Utf8Idle /\ LookupIdle /\ DocIdle /\ OrderIdle /\ EqualIdle /\ ThrowIdle /\ CycleIdle /\ MoveIdle /\ OutIdle

IdleButUtf8 == ParserIdle /\ ObjectIdle /\ FacadeIdle /\ CopyIdle /\ ArenaIdle /\ ScopeIdle /\ TextIdle /\ RoundIdle /\ CounterIdle /\ WriterIdle /\ LookupIdle /\ DocIdle /\ OrderIdle /\ EqualIdle /\ ThrowIdle /\ CycleIdle /\ MoveIdle /\ OutIdle

IdleButLookup == ParserIdle /\ ObjectIdle /\ FacadeIdle /\ CopyIdle /\ ArenaIdle /\ ScopeIdle /\ TextIdle /\ RoundIdle /\ CounterIdle /\ WriterIdle /\ Utf8Idle /\ DocIdle /\ OrderIdle /\ EqualIdle /\ ThrowIdle /\ CycleIdle /\ MoveIdle /\ OutIdle

IdleButObjectLookup == ParserIdle /\ FacadeIdle /\ CopyIdle /\ ArenaIdle /\ ScopeIdle /\ TextIdle /\ RoundIdle /\ CounterIdle /\ WriterIdle /\ Utf8Idle /\ DocIdle /\ OrderIdle /\ EqualIdle /\ ThrowIdle /\ CycleIdle /\ MoveIdle /\ OutIdle

IdleButDoc == ParserIdle /\ ObjectIdle /\ FacadeIdle /\ CopyIdle /\ ArenaIdle /\ ScopeIdle /\ TextIdle /\ RoundIdle /\ CounterIdle /\ WriterIdle /\ Utf8Idle /\ LookupIdle /\ OrderIdle /\ EqualIdle /\ ThrowIdle /\ CycleIdle /\ MoveIdle /\ OutIdle

IdleButOrder == ParserIdle /\ ObjectIdle /\ FacadeIdle /\ CopyIdle /\ ArenaIdle /\ ScopeIdle /\ TextIdle /\ RoundIdle /\ CounterIdle /\ WriterIdle /\ Utf8Idle /\ LookupIdle /\ DocIdle /\ EqualIdle /\ ThrowIdle /\ CycleIdle /\ MoveIdle /\ OutIdle

IdleButObjectOrder == ParserIdle /\ FacadeIdle /\ CopyIdle /\ ArenaIdle /\ ScopeIdle /\ TextIdle /\ RoundIdle /\ CounterIdle /\ WriterIdle /\ Utf8Idle /\ LookupIdle /\ DocIdle /\ EqualIdle /\ ThrowIdle /\ CycleIdle /\ MoveIdle /\ OutIdle

IdleButEqual == ParserIdle /\ ObjectIdle /\ FacadeIdle /\ CopyIdle /\ ArenaIdle /\ ScopeIdle /\ TextIdle /\ RoundIdle /\ CounterIdle /\ WriterIdle /\ Utf8Idle /\ LookupIdle /\ DocIdle /\ OrderIdle /\ ThrowIdle /\ CycleIdle /\ MoveIdle /\ OutIdle

IdleButObjectEqual == ParserIdle /\ FacadeIdle /\ CopyIdle /\ ArenaIdle /\ ScopeIdle /\ TextIdle /\ RoundIdle /\ CounterIdle /\ WriterIdle /\ Utf8Idle /\ LookupIdle /\ DocIdle /\ OrderIdle /\ ThrowIdle /\ CycleIdle /\ MoveIdle /\ OutIdle

IdleButThrow == ParserIdle /\ ObjectIdle /\ FacadeIdle /\ CopyIdle /\ ArenaIdle /\ ScopeIdle /\ TextIdle /\ RoundIdle /\ CounterIdle /\ WriterIdle /\ Utf8Idle /\ LookupIdle /\ DocIdle /\ OrderIdle /\ EqualIdle /\ CycleIdle /\ MoveIdle /\ OutIdle

IdleButFacadeThrow == ParserIdle /\ ObjectIdle /\ CopyIdle /\ ArenaIdle /\ ScopeIdle /\ TextIdle /\ RoundIdle /\ CounterIdle /\ WriterIdle /\ Utf8Idle /\ LookupIdle /\ DocIdle /\ OrderIdle /\ EqualIdle /\ CycleIdle /\ MoveIdle /\ OutIdle

IdleButCycle == ParserIdle /\ ObjectIdle /\ FacadeIdle /\ CopyIdle /\ ArenaIdle /\ ScopeIdle /\ TextIdle /\ RoundIdle /\ CounterIdle /\ WriterIdle /\ Utf8Idle /\ LookupIdle /\ DocIdle /\ OrderIdle /\ EqualIdle /\ ThrowIdle /\ MoveIdle /\ OutIdle

IdleButArenaCycle == ParserIdle /\ ObjectIdle /\ FacadeIdle /\ CopyIdle /\ ScopeIdle /\ TextIdle /\ RoundIdle /\ CounterIdle /\ WriterIdle /\ Utf8Idle /\ LookupIdle /\ DocIdle /\ OrderIdle /\ EqualIdle /\ ThrowIdle /\ MoveIdle /\ OutIdle

IdleButMove == ParserIdle /\ ObjectIdle /\ FacadeIdle /\ CopyIdle /\ ArenaIdle /\ ScopeIdle /\ TextIdle /\ RoundIdle /\ CounterIdle /\ WriterIdle /\ Utf8Idle /\ LookupIdle /\ DocIdle /\ OrderIdle /\ EqualIdle /\ ThrowIdle /\ CycleIdle /\ OutIdle

IdleButOut == ParserIdle /\ ObjectIdle /\ FacadeIdle /\ CopyIdle /\ ArenaIdle /\ ScopeIdle /\ TextIdle /\ RoundIdle /\ CounterIdle /\ WriterIdle /\ Utf8Idle /\ LookupIdle /\ DocIdle /\ OrderIdle /\ EqualIdle /\ ThrowIdle /\ CycleIdle /\ MoveIdle

---------------------------------------------------------------------------
(* Object: operations *)

\* Capacity after n emplace_backs into an empty vector.
RECURSIVE CapAfter(_)
CapAfter(n) == IF n = 0 THEN 0
               ELSE IF n - 1 = CapAfter(n - 1) THEN GrowCap(CapAfter(n - 1))
               ELSE CapAfter(n - 1)

\* An object built by insert(i, 1) for the fillers i = 1..InitFill, all below
\* the index threshold: no index has been created.
ObjStart ==
    /\ entries = [i \in 1..InitFill |-> [key |-> i, val |-> 1]]
    /\ cap = CapAfter(InitFill)
    /\ hasIndex = FALSE
    /\ indexMap = EmptyMap
    /\ last = [k \in Keys |-> IF k <= InitFill THEN 1 ELSE Absent]
    /\ ub = FALSE

\* Object::insert(key, value)
Insert(k, v) ==
    /\ ~ub
    /\ Len(entries) < MaxLen
    /\ last' = [last EXCEPT ![k] = v]
    /\ IF Len(entries) < kIndexThreshold
       THEN \* linear branch: overwrite the first match or append; index_
            \* is not touched
            /\ IF Positions(entries, k) # {}
               THEN /\ entries' = [entries EXCEPT ![FirstPos(entries, k)].val = v]
                    /\ cap' = cap
               ELSE /\ entries' = Append(entries, [key |-> k, val |-> v])
                    /\ cap' = CapAfterPush(entries, cap)
            /\ UNCHANGED <<hasIndex, indexMap, ub>>
       ELSE \* indexed branch
            LET m0 == EnsuredMap(entries, hasIndex, indexMap) IN
            \E p \in IndexFind(entries, m0, k) :
                IF p # 0
                THEN IF p > Len(entries)
                     THEN /\ ub' = TRUE
                          /\ hasIndex' = TRUE
                          /\ indexMap' = m0
                          /\ UNCHANGED <<entries, cap>>
                     ELSE /\ entries' = [entries EXCEPT ![p].val = v]
                          /\ hasIndex' = TRUE
                          /\ indexMap' = m0
                          /\ UNCHANGED <<cap, ub>>
                ELSE LET es2 == Append(entries, [key |-> k, val |-> v]) IN
                     /\ entries' = es2
                     /\ cap' = CapAfterPush(entries, cap)
                     /\ hasIndex' = TRUE
                     /\ indexMap' =
                          IF Reallocates(entries, cap)
                          THEN rebuild_index(es2)
                          ELSE \* index_->emplace(view(back), idx) after the miss
                               m0 \cup {[hkey |-> k, slot |-> Len(es2), idx |-> Len(es2)]}
                     /\ ub' = ub

\* update_index_after_push(old_data), called with the entry already
\* appended: the maps index_ can hold afterwards.
update_index_after_push(es2, m, realloc) ==
    IF realloc
    THEN {rebuild_index(es2)}
    ELSE \* (*index_)[view(back)] = size - 1
         LET k == es2[Len(es2)].key
             fresh == [hkey |-> k, slot |-> Len(es2), idx |-> Len(es2)]
         IN  {(m \ {r}) \cup {[r EXCEPT !.idx = Len(es2)]} :
                  r \in {x \in m : 0 # x.idx /\ x \in IndexRecords(es2, m, k, x.idx)}}
               \cup (IF IndexHits(es2, m, k) = {} THEN {m \cup {fresh}} ELSE {})

\* Object::operator[](key), mutable: find, else append Null
Subscript(k) ==
    /\ ~ub
    /\ Len(entries) < MaxLen
    /\ last' = [last EXCEPT ![k] = IF @ = Absent THEN NullVal ELSE @]
    /\ LET has0 == EnsuredHas(entries, hasIndex)
           m0 == EnsuredMap(entries, hasIndex, indexMap)
       IN \E p \in FindPos(entries, hasIndex, indexMap, k) :
            IF p # 0
            THEN /\ ub' = (p > Len(entries))
                 /\ hasIndex' = has0
                 /\ indexMap' = m0
                 /\ UNCHANGED <<entries, cap>>
            ELSE LET es2 == Append(entries, [key |-> k, val |-> NullVal]) IN
                 /\ entries' = es2
                 /\ cap' = CapAfterPush(entries, cap)
                 /\ hasIndex' = has0
                 /\ IF has0
                    THEN indexMap' \in update_index_after_push(es2, m0, Reallocates(entries, cap))
                    ELSE indexMap' = m0
                 /\ ub' = ub

\* Object::emplace_back(key, value): append without looking the key up
EmplaceBack(k, v) ==
    /\ ~ub
    /\ Len(entries) < MaxLen
    /\ k \notin KeysOf(entries)
    /\ last' = [last EXCEPT ![k] = v]
    /\ LET es2 == Append(entries, [key |-> k, val |-> v]) IN
       /\ entries' = es2
       /\ cap' = CapAfterPush(entries, cap)
       /\ IF hasIndex
          THEN indexMap' \in update_index_after_push(es2, indexMap, Reallocates(entries, cap))
          ELSE indexMap' = indexMap
    /\ UNCHANGED <<hasIndex, ub>>

\* Object::erase(key)
Erase(k) ==
    /\ ~ub
    /\ last' = [last EXCEPT ![k] = Absent]
    /\ IF use_index(entries) /\ hasIndex
       THEN \E p \in IndexFind(entries, indexMap, k) :
              IF p = 0
              THEN UNCHANGED <<entries, cap, hasIndex, indexMap, ub>>
              ELSE IF p > Len(entries)
                   THEN /\ ub' = TRUE
                        /\ UNCHANGED <<entries, cap, hasIndex, indexMap>>
                   ELSE /\ entries' = RemoveAt(entries, p)
                        /\ indexMap' = rebuild_index(RemoveAt(entries, p))
                        /\ UNCHANGED <<cap, hasIndex, ub>>
       ELSE \* linear branch: index_ is not touched
            /\ entries' = IF Positions(entries, k) = {} THEN entries
                          ELSE RemoveAt(entries, FirstPos(entries, k))
            /\ UNCHANGED <<cap, hasIndex, indexMap, ub>>

\* Object::find / contains / at (const): ensure_index() builds the index
Find ==
    /\ ~ub
    /\ hasIndex' = EnsuredHas(entries, hasIndex)
    /\ indexMap' = EnsuredMap(entries, hasIndex, indexMap)
    /\ UNCHANGED <<entries, cap, last, ub>>

\* Object(const Object&): entries copied into a buffer of exactly size()
\* elements, index_ left null.  The model goes on with the copy.
CopyObject ==
    /\ ~ub
    /\ cap' = Len(entries)
    /\ hasIndex' = FALSE
    /\ indexMap' = EmptyMap
    /\ UNCHANGED <<entries, last, ub>>

\* Object(Object&&): the entries buffer and index_ change owner; the views
\* keep pointing into the same buffer.  The model goes on with the target.
MoveObject ==
    /\ ~ub
    /\ UNCHANGED <<entries, cap, hasIndex, indexMap, last, ub>>

ObjInit == ObjStart /\ IdleButObject

ObjNext ==
    \/ (\E in \in InsertInputs(entries) : Insert(in[1], in[2])) /\ NotObject
    \/ (\E k \in OpKeys : Subscript(k)) /\ NotObject
    \/ (\E k \in OpKeys, v \in 1..MaxVal : EmplaceBack(k, v)) /\ NotObject
    \/ (\E k \in OpKeys : Erase(k)) /\ NotObject
    \/ Find /\ NotObject
    \/ CopyObject /\ NotObject
    \/ MoveObject /\ NotObject

\* Every Object operation.
SpecObject == ObjInit /\ [][ObjNext]_vars

\* insert, mutable operator[], erase and the const lookups only.
ObjCoreNext ==
    \/ (\E in \in InsertInputs(entries) : Insert(in[1], in[2])) /\ NotObject
    \/ (\E k \in OpKeys : Subscript(k)) /\ NotObject
    \/ (\E k \in OpKeys : Erase(k)) /\ NotObject
    \/ Find /\ NotObject

SpecObjectCore == ObjInit /\ [][ObjCoreNext]_vars

---------------------------------------------------------------------------
(* Parser::parse_object and Parser::finalize_object *)

\* The object text holds at most PMaxLen members, at most PMaxOcc of them with
\* an operated key; filler keys come in ascending order, each once.
PMaxLen == 17
PMaxOcc == 3

\* parse_object reserves 8 entries, or the member count its comma pre-scan
\* estimates for texts longer than 256 bytes.
kReserve == 8

PReserves == {kReserve, PMaxLen}

\* Keys longer than 15 chars keep their bytes in a heap buffer that moves
\* with the std::string; shorter keys live inside the entry (SSO).
IsLong(k) == k = NumFill + NumOp

OccCount(t) == Cardinality({i \in 1..Len(t) : t[i] \in OpKeys})

PNextKeys(t) ==
    (IF OccCount(t) < PMaxOcc THEN OpKeys ELSE {})
      \cup (IF FillCount([i \in 1..Len(t) |-> [key |-> t[i]]]) < NumFill
            THEN {FillCount([i \in 1..Len(t) |-> [key |-> t[i]]]) + 1} ELSE {})

HasRepeat(t) == \E i, j \in 1..Len(t) : i # j /\ t[i] = t[j]

\* seen_keys->emplace(view(back)): TRUE when the key counts as already seen.
\* A live view of the same key decides it.  Views into a freed entry buffer
\* read arbitrary bytes: they may or may not compare equal.
SeenOutcomes(sn, k) ==
    IF \E r \in sn : r.hkey = k /\ r.live THEN {TRUE}
    ELSE IF \E r \in sn : ~r.live THEN {TRUE, FALSE}
    ELSE {FALSE}

\* emplace_back moved the entries into a new buffer: views of SSO keys now
\* point into the freed one.
AfterRealloc(sn) == {[r EXCEPT !.live = IsLong(r.hkey)] : r \in sn}

\* entries[w] = std::move(entries[i]) for pair<std::string, JsonValue>: an
\* SSO source is copied into the target's bytes (its heap buffer when the
\* target owns one); a heap source hands its buffer over and receives the
\* target's old one; the source is left empty (key 0).
MoveAssign(es, w, i) ==
    LET src == es[i]
        dst == es[w]
    IN  [es EXCEPT
           ![w] = [key |-> src.key, val |-> src.val,
                   buf |-> IF src.buf # 0 THEN src.buf ELSE dst.buf],
           ![i] = [key |-> 0, val |-> 0,
                   buf |-> IF src.buf # 0 THEN dst.buf ELSE 0]]

\* What the view of index record r reads during compaction; es0 are the
\* entries the index was built from.
CompactReads(es, es0, r, k) ==
    IF es0[r.slot].buf # 0
    THEN \E j \in 1..Len(es) : es[j].buf = es0[r.slot].buf /\ es[j].key = k
    ELSE es[r.slot].buf = 0 /\ es[r.slot].key = k

\* The compaction loop of finalize_object from position i on: keeps the
\* entries whose indexed position equals their own.  ok turns FALSE when
\* index_->find misses and it->second dereferences end().
RECURSIVE Compact(_, _, _, _, _)
Compact(es, es0, m, i, write) ==
    IF i > Len(es) THEN [es |-> SubSeq(es, 1, write - 1), ok |-> TRUE]
    ELSE LET hits == {r \in m : r.hkey = es[i].key /\ CompactReads(es, es0, r, es[i].key)}
         IN  IF hits = {} THEN [es |-> es, ok |-> FALSE]
             ELSE IF (CHOOSE r \in hits : TRUE).idx = i
                  THEN Compact(IF write # i THEN MoveAssign(es, write, i) ELSE es,
                               es0, m, i + 1, write + 1)
                  ELSE Compact(es, es0, m, i + 1, write)

\* The small-object loop of finalize_object: erase entry i while a later
\* entry has the same key.
RECURSIVE SmallDedup(_, _)
SmallDedup(es, i) ==
    IF i > Len(es) THEN es
    ELSE IF \E j \in (i + 1)..Len(es) : es[i].key = es[j].key
         THEN SmallDedup(RemoveAt(es, i), i)
         ELSE SmallDedup(es, i + 1)

\* finalize_object(obj)
finalize_object(es) ==
    IF Len(es) >= kIndexThreshold
    THEN IF Cardinality(rebuild_index(es)) < Len(es)
         THEN Compact(es, es, rebuild_index(es), 1, 1)
         ELSE [es |-> es, ok |-> TRUE]
    ELSE IF Len(es) >= 2
         THEN [es |-> SmallDedup(es, 1), ok |-> TRUE]
         ELSE [es |-> es, ok |-> TRUE]

ParseStart ==
    /\ ptext = <<>>
    /\ pentries = <<>>
    /\ pcap \in PReserves
    /\ seen = {}
    /\ dupAllowed \in BOOLEAN
    /\ pstate = "parsing"
    /\ pub = FALSE

\* One turn of parse_object's member loop: key, ':', value, emplace_back and,
\* when duplicates are forbidden, the seen_keys check.
ParseMember(k) ==
    /\ pstate = "parsing"
    /\ Len(ptext) < PMaxLen
    /\ ptext' = Append(ptext, k)
    /\ LET e == [key |-> k, val |-> Len(ptext) + 1,
                 buf |-> IF IsLong(k) THEN Len(ptext) + 1 ELSE 0]
           sn == IF Reallocates(pentries, pcap) THEN AfterRealloc(seen) ELSE seen
       IN  IF dupAllowed
           THEN /\ pentries' = Append(pentries, e)
                /\ pcap' = CapAfterPush(pentries, pcap)
                /\ UNCHANGED <<seen, pstate>>
           ELSE \E dup \in SeenOutcomes(sn, k) :
                  /\ pcap' = CapAfterPush(pentries, pcap)
                  /\ IF dup
                     THEN \* pop_back, error(duplicate_key)
                          /\ pentries' = pentries
                          /\ seen' = sn
                          /\ pstate' = "dup_error"
                     ELSE /\ pentries' = Append(pentries, e)
                          /\ seen' = sn \cup {[hkey |-> k, live |-> TRUE]}
                          /\ pstate' = pstate
    /\ UNCHANGED <<dupAllowed, pub>>

\* '}' : pop_depth, finalize_object, return JsonValue(std::move(obj))
CloseObject ==
    /\ pstate = "parsing"
    /\ LET f == finalize_object(pentries) IN
       /\ pentries' = f.es
       /\ pub' = ~f.ok
    /\ pstate' = "done"
    /\ UNCHANGED <<ptext, pcap, seen, dupAllowed>>

ParseInit == ParseStart /\ IdleButParser

ParseNext ==
    \/ (\E k \in PNextKeys(ptext) : ParseMember(k)) /\ NotParser
    \/ CloseObject /\ NotParser

SpecParse == ParseInit /\ [][ParseNext]_vars

---------------------------------------------------------------------------
(* ThreadSafeJson: a JsonValue behind a std::shared_mutex *)

NumThreads == 2
TsSpan == 1

Threads == 1..NumThreads
NoThread == 0
TsSizes == (kIndexThreshold - TsSpan)..(kIndexThreshold + TsSpan)
TsKinds == {"object", "array"}

\* Object::use_index() of the stored value.
TsUsesIndex(v) == v.kind = "object" /\ v.size >= kIndexThreshold

\* A value copied from a const reference: the Object copy constructor and
\* copy assignment leave index_ null.
CopiedValues ==
    {[kind |-> k, size |-> n, index |-> "null"] : k \in TsKinds, n \in TsSizes}

\* A value moved in: the Object move constructor keeps the source's index_.
MovedValues ==
    CopiedValues
      \cup {[kind |-> "object", size |-> n, index |-> "built"] : n \in TsSizes}

\* Object::ensure_index(): an index is created only when use_index() holds
\* and none exists.
TsEnsured(v) == IF v.index = "null" THEN "built" ELSE v.index

\* Object::insert / Object::operator[] on the stored object, for a key that
\* is present (value replaced) or absent (entry appended).
AfterUpsert(v) ==
    LET looked == IF TsUsesIndex(v) THEN [v EXCEPT !.index = TsEnsured(v)]
                  ELSE v
    IN  {looked}
          \cup (IF v.size < kIndexThreshold + TsSpan
                THEN {[looked EXCEPT !.size = @ + 1]} ELSE {})

\* Object::erase on the stored object, for a key that is absent or present.
AfterErase(v) ==
    {v} \cup (IF v.size > kIndexThreshold - TsSpan
              THEN {IF TsUsesIndex(v) /\ v.index # "null"
                    THEN [v EXCEPT !.size = @ - 1,
                                   !.index = IF @ = "broken" THEN @
                                             ELSE "built"]
                    ELSE [v EXCEPT !.size = @ - 1]}
              ELSE {})

\* Positions of a thread holding the shared lock / the unique lock.
ReaderInside == {"r_plain", "r_check", "r_build", "r_fill", "r_lookup",
                 "r_done"}
WriterInside == {"w_write", "w_assign", "w_assign_move", "w_update",
                 "w_insert", "w_push_back", "w_erase", "w_guard", "w_done"}

\* Positions in which a reader reads or writes the stored Object's index_.
TouchesIndex == {"r_check", "r_build", "r_fill", "r_lookup"}

\* Another thread is inside an access to index_ that nothing orders with t's.
Conflicts(t) == \E u \in Threads \ {t} : tpc[u] \in TouchesIndex

\* std::shared_lock lock(mutex_): blocks while a writer holds the mutex.
lock_shared(t, pos) ==
    /\ tpc[t] = "idle"
    /\ mutex_.writer = NoThread
    /\ mutex_' = [mutex_ EXCEPT !.readers = @ \cup {t}]
    /\ tpc' = [tpc EXCEPT ![t] = pos]
    /\ UNCHANGED <<value_, tsRace>>

\* The acquisition of a write-side operation written with std::shared_lock.
lock_as_shared(t, pos) == lock_shared(t, pos)

\* std::unique_lock lock(mutex_): blocks while anyone holds the mutex.
lock_unique(t, pos) ==
    /\ tpc[t] = "idle"
    /\ mutex_.writer = NoThread
    /\ mutex_.readers = {}
    /\ mutex_' = [mutex_ EXCEPT !.writer = t]
    /\ tpc' = [tpc EXCEPT ![t] = pos]
    /\ UNCHANGED <<value_, tsRace>>

\* read(fn): fn uses find / contains / const operator[] (r_check) or size /
\* dump (r_plain).
Read(t) == \E pos \in {"r_check", "r_plain"} : lock_shared(t, pos)

Snapshot(t) == lock_shared(t, "r_plain")

Dump(t) == lock_shared(t, "r_plain")

TypeOf(t) == lock_shared(t, "r_plain")

Size(t) == lock_shared(t, "r_plain")

\* read_guard(): the guard's operator-> hands out the const value.
ReadGuard(t) == \E pos \in {"r_check", "r_plain"} : lock_shared(t, pos)

\* type(), size(), dump(), the copy made by snapshot(): entries are read,
\* nothing is written.
PlainAccess(t) ==
    /\ tpc[t] = "r_plain"
    /\ tpc' = [tpc EXCEPT ![t] = "r_done"]
    /\ UNCHANGED <<value_, mutex_, tsRace>>

\* const find: use_index() and the test of index_ in ensure_index().
FindCheck(t) ==
    /\ tpc[t] = "r_check"
    /\ tpc' = [tpc EXCEPT ![t] =
                  IF TsUsesIndex(value_)
                  THEN IF value_.index = "null" THEN "r_build" ELSE "r_lookup"
                  ELSE "r_done"]
    /\ UNCHANGED <<value_, mutex_, tsRace>>

\* rebuild_index(): index_ = std::make_unique<index_type>(...).
FindBuild(t) ==
    /\ tpc[t] = "r_build"
    /\ value_' = [value_ EXCEPT !.index = "filling"]
    /\ tsRace' = (tsRace \/ Conflicts(t))
    /\ tpc' = [tpc EXCEPT ![t] = "r_fill"]
    /\ UNCHANGED mutex_

\* rebuild_index(): the loop storing every entry's key view and position.
FindFill(t) ==
    /\ tpc[t] = "r_fill"
    /\ \E ix \in (IF Conflicts(t) \/ value_.index # "filling"
                  THEN {"built", "broken"} ELSE {"built"}) :
          value_' = [value_ EXCEPT !.index = ix]
    /\ tsRace' = (tsRace \/ Conflicts(t))
    /\ tpc' = [tpc EXCEPT ![t] = "r_lookup"]
    /\ UNCHANGED mutex_

\* index_->find(key) and the dereference of the hit.
FindLookup(t) ==
    /\ tpc[t] = "r_lookup"
    /\ tsRace' = (tsRace \/ value_.index \in {"filling", "broken"}
                         \/ \E u \in Threads \ {t} :
                               tpc[u] \in {"r_build", "r_fill"})
    /\ tpc' = [tpc EXCEPT ![t] = "r_done"]
    /\ UNCHANGED <<value_, mutex_>>

\* ~shared_lock.
unlock_shared(t) ==
    /\ tpc[t] = "r_done"
    /\ mutex_' = [mutex_ EXCEPT !.readers = @ \ {t}]
    /\ tpc' = [tpc EXCEPT ![t] = "idle"]
    /\ UNCHANGED <<value_, tsRace>>

\* write(fn)
Write(t) == lock_unique(t, "w_write")

\* assign(const JsonValue&)
Assign(t) == lock_unique(t, "w_assign")

\* assign(JsonValue&&)
AssignMove(t) == lock_unique(t, "w_assign_move")

\* update(fn)
Update(t) == lock_unique(t, "w_update")

\* insert(key, value)
TsInsert(t) == lock_unique(t, "w_insert")

\* push_back(value)
PushBack(t) == lock_unique(t, "w_push_back")

\* erase(key)
TsErase(t) == lock_unique(t, "w_erase")

\* write_guard()
WriteGuard(t) == lock_unique(t, "w_guard")

\* The stored value after the body of the write-side operation at pos.  A
\* body that throws TypeError (insert or erase on an array, push_back on an
\* object) leaves the value as it was.
BodyResults(pos, v) ==
    CASE pos \in {"w_write", "w_guard", "w_insert"} ->
            IF v.kind = "object" THEN AfterUpsert(v) ELSE {v}
      [] pos = "w_assign" -> CopiedValues
      [] pos = "w_assign_move" -> MovedValues
      [] pos = "w_update" -> MovedValues \cup {v}
      [] pos = "w_push_back" ->
            IF v.kind = "array" /\ v.size < kIndexThreshold + TsSpan
            THEN {[v EXCEPT !.size = @ + 1]} ELSE {v}
      [] pos = "w_erase" ->
            IF v.kind = "object" THEN AfterErase(v) ELSE {v}

\* The body of a write-side operation, run under the unique lock.
WriteBody(t) ==
    /\ tpc[t] \in WriterInside \ {"w_done"}
    /\ \E v \in BodyResults(tpc[t], value_) : value_' = v
    /\ tpc' = [tpc EXCEPT ![t] = "w_done"]
    /\ UNCHANGED <<mutex_, tsRace>>

\* ~unique_lock.
unlock_unique(t) ==
    /\ tpc[t] = "w_done"
    /\ mutex_' = [mutex_ EXCEPT !.writer = IF @ = t THEN NoThread ELSE @,
                                !.readers = @ \ {t}]
    /\ tpc' = [tpc EXCEPT ![t] = "idle"]
    /\ UNCHANGED <<value_, tsRace>>

\* ThreadSafeJson(const JsonValue&) or ThreadSafeJson(JsonValue&&).
FacadeStart ==
    /\ value_ \in MovedValues
    /\ mutex_ = [readers |-> {}, writer |-> NoThread]
    /\ tpc = [t \in Threads |-> "idle"]
    /\ tsRace = FALSE

FacadeInit == FacadeStart /\ IdleButFacade

FacadeNext ==
    \/ (\E t \in Threads : Read(t)) /\ NotFacade
    \/ (\E t \in Threads : Snapshot(t)) /\ NotFacade
    \/ (\E t \in Threads : Dump(t)) /\ NotFacade
    \/ (\E t \in Threads : TypeOf(t)) /\ NotFacade
    \/ (\E t \in Threads : Size(t)) /\ NotFacade
    \/ (\E t \in Threads : ReadGuard(t)) /\ NotFacade
    \/ (\E t \in Threads : PlainAccess(t)) /\ NotFacade
    \/ (\E t \in Threads : FindCheck(t)) /\ NotFacade
    \/ (\E t \in Threads : FindBuild(t)) /\ NotFacade
    \/ (\E t \in Threads : FindFill(t)) /\ NotFacade
    \/ (\E t \in Threads : FindLookup(t)) /\ NotFacade
    \/ (\E t \in Threads : unlock_shared(t)) /\ NotFacade
    \/ (\E t \in Threads : Write(t)) /\ NotFacade
    \/ (\E t \in Threads : Assign(t)) /\ NotFacade
    \/ (\E t \in Threads : AssignMove(t)) /\ NotFacade
    \/ (\E t \in Threads : Update(t)) /\ NotFacade
    \/ (\E t \in Threads : TsInsert(t)) /\ NotFacade
    \/ (\E t \in Threads : PushBack(t)) /\ NotFacade
    \/ (\E t \in Threads : TsErase(t)) /\ NotFacade
    \/ (\E t \in Threads : WriteGuard(t)) /\ NotFacade
    \/ (\E t \in Threads : WriteBody(t)) /\ NotFacade
    \/ (\E t \in Threads : unlock_unique(t)) /\ NotFacade

SpecFacade == FacadeInit /\ [][FacadeNext]_vars

---------------------------------------------------------------------------
(* Copies of arena-backed values *)

CopyDepth == 2
CopyWidth == 2

NoValue == <<>>

\* A string of more than 15 characters parsed into the arena: raw characters
\* in the arena, kArenaFlag set.
ArenaString ==
    [kind |-> "string", flag |-> TRUE, node |-> "arena", buf |-> "none",
     kids |-> <<>>]

\* A string of at most 15 characters: stored inside the JsonValue.
SsoString ==
    [kind |-> "sso", flag |-> FALSE, node |-> "inline", buf |-> "none",
     kids |-> <<>>]

\* An array or object built by the parser while an arena is active: the
\* Array / Object is constructed in the arena and its vector allocates
\* from the arena.
ArenaContainer(k, ks) ==
    [kind |-> k, flag |-> TRUE, node |-> "arena", buf |-> "arena",
     kids |-> ks]

KidSeqs(S) == UNION {[1..n -> S] : n \in 0..CopyWidth}

\* The arena-parsed values of nesting depth at most d.
RECURSIVE ArenaValues(_)
ArenaValues(d) ==
    IF d = 0 THEN {ArenaString, SsoString}
    ELSE ArenaValues(0)
           \cup {ArenaContainer(k, ks) : k \in {"array", "object"},
                                        ks \in KidSeqs(ArenaValues(d - 1))}

\* detail::current_resource() / the target of new or arena->allocate.
Target(arena) == IF arena THEN "arena" ELSE "heap"

\* JsonValue(const JsonValue&): kind_ and sso_len_ are taken over, pad_
\* starts cleared, copy_payload fills the payload.
RECURSIVE copy_payload(_, _)
copy_payload(o, arena) ==
    CASE o.kind = "string" ->
            [o EXCEPT !.node = Target(arena), !.flag = arena]
      [] o.kind = "array" ->
            [kind |-> "array", flag |-> arena, node |-> Target(arena),
             buf |-> Target(arena),
             kids |-> [i \in DOMAIN o.kids |-> copy_payload(o.kids[i], arena)]]
      [] o.kind = "object" ->
            \* new Object(*o.u_.obj) / construct<Object>(*o.u_.obj):
            \* Object(const Object& o) : entries(o.entries, o.get_resource())
            [kind |-> "object", flag |-> arena, node |-> Target(arena),
             buf |-> o.buf,
             kids |-> [i \in DOMAIN o.kids |-> copy_payload(o.kids[i], arena)]]
      [] OTHER -> o

\* Some storage of v is arena memory: its payload, a non-empty element
\* buffer, or storage of a nested value.
RECURSIVE InArena(_)
InArena(v) ==
    \/ v.node = "arena"
    \/ v.buf = "arena" /\ Len(v.kids) > 0
    \/ \E i \in DOMAIN v.kids : InArena(v.kids[i])

\* parse(input, arena): the value has been returned and no scope is live.
CopyStart ==
    /\ csrc \in ArenaValues(CopyDepth)
    /\ cactive = FALSE
    /\ ccopy = NoValue
    /\ coutside = FALSE
    /\ carena = TRUE
    /\ cread = "none"

\* ArenaScope scope(arena)
EnterScope ==
    /\ ~cactive
    /\ carena
    /\ cactive' = TRUE
    /\ UNCHANGED <<csrc, ccopy, coutside, carena, cread>>

\* ~ArenaScope
LeaveScope ==
    /\ cactive
    /\ cactive' = FALSE
    /\ UNCHANGED <<csrc, ccopy, coutside, carena, cread>>

\* JsonValue copy(v) / copy = v, for the arena-backed v.
CopyValue ==
    /\ ccopy = NoValue
    /\ carena
    /\ ccopy' = copy_payload(csrc, cactive)
    /\ coutside' = ~cactive
    /\ UNCHANGED <<csrc, cactive, carena, cread>>

\* arena.reset() or ~MonotonicArena: every byte handed out is invalid.
ArenaGone ==
    /\ carena
    /\ ~cactive
    /\ carena' = FALSE
    /\ UNCHANGED <<csrc, cactive, ccopy, coutside, cread>>

\* The copy is read back (dump, as_string, iteration) and compared with the
\* original content.  Reading storage of a reset arena is undefined.
ReadCopy ==
    /\ ccopy # NoValue
    /\ cread = "none"
    /\ cread' \in (IF InArena(ccopy) /\ ~carena
                    THEN {"equal", "garbage", "crash"} ELSE {"equal"})
    /\ UNCHANGED <<csrc, cactive, ccopy, coutside, carena>>

CopyInit == CopyStart /\ IdleButCopy

CopyNext ==
    \/ EnterScope /\ NotCopy
    \/ LeaveScope /\ NotCopy
    \/ CopyValue /\ NotCopy
    \/ ArenaGone /\ NotCopy
    \/ ReadCopy /\ NotCopy

SpecCopy == CopyInit /\ [][CopyNext]_vars

---------------------------------------------------------------------------
(* MonotonicArena *)

ArenaMaxCycles == 3
ArenaMaxAllocs == 3

\* sizeof(Block): a pointer and a size_t.
kBlockHeader == 16
\* Least next_block_size_ of an arena over an external buffer.
kMinExternalNext == 4096
\* Least first block of a heap-only arena.
kMinHeapBlock == 256
\* Block size reset() falls back to when next_block_size_ is 0.
kResetFallback == 4096

BufSizes == {1024, 8192}
HeapSizes == {100, 4096}
AllocSizes == {1000, 3000}
Aligns == {1, 8}

\* (cur + align - 1) & ~(align - 1), offsets counted from the block's data.
AlignUp(cur, align) == ((cur + align - 1) \div align) * align

\* The arena's fields as one record.
ArenaFields ==
    [ptr |-> ptr_, end |-> end_, blocks |-> blocks_,
     total |-> total_allocated_, next |-> next_block_size_]

\* grow(data_size): a new heap block becomes the allocation target.
grow(A, data_size) ==
    [ptr |-> 0, end |-> data_size, blocks |-> <<data_size>> \o A.blocks,
     total |-> A.total + kBlockHeader + data_size, next |-> data_size * 2]

\* allocate_slow(size, align): the current block is exhausted.
allocate_slow(A, size, align) ==
    LET needed == size + align - 1
        block_size == IF A.next < needed THEN needed ELSE A.next
        G == grow(A, block_size)
    IN  [G EXCEPT !.ptr = AlignUp(G.ptr, align) + size]

\* allocate(size, align)
allocate(A, size, align) ==
    LET aligned == AlignUp(A.ptr, align)
    IN  IF aligned + size <= A.end THEN [A EXCEPT !.ptr = aligned + size]
        ELSE allocate_slow(A, size, align)

\* A reset() that rewinds without giving up the overflow blocks.
reset_keeping_blocks(A, external, isize) ==
    IF external
    THEN [A EXCEPT !.ptr = 0, !.end = isize, !.total = isize]
    ELSE grow([A EXCEPT !.ptr = 0, !.end = 0, !.total = 0],
              IF A.next > 0 THEN A.next \div 2 ELSE kResetFallback)

\* reset(): the overflow blocks are freed; the external buffer is reused
\* or, for a heap-only arena, a fresh block is allocated.
reset(A, external, isize) ==
    IF external
    THEN [A EXCEPT !.blocks = <<>>, !.ptr = 0, !.end = isize, !.total = isize]
    ELSE grow([A EXCEPT !.blocks = <<>>, !.ptr = 0, !.end = 0, !.total = 0],
              IF A.next > 0 THEN A.next \div 2 ELSE kResetFallback)

\* MonotonicArena(void* buf, size_t buf_size)
ExternalArena(buf_size) ==
    [ptr |-> 0, end |-> buf_size, blocks |-> <<>>, total |-> buf_size,
     next |-> IF buf_size < kMinExternalNext THEN kMinExternalNext
              ELSE buf_size * 2]

\* MonotonicArena(size_t initial_size)
HeapArena(initial_size) ==
    LET first == IF initial_size < kMinHeapBlock THEN kMinHeapBlock
                 ELSE initial_size
    IN  grow([ptr |-> 0, end |-> 0, blocks |-> <<>>, total |-> 0,
              next |-> first], first)

SetArena(A) ==
    /\ ptr_' = A.ptr
    /\ end_' = A.end
    /\ blocks_' = A.blocks
    /\ total_allocated_' = A.total
    /\ next_block_size_' = A.next

Constructed(A) ==
    /\ ptr_ = A.ptr
    /\ end_ = A.end
    /\ blocks_ = A.blocks
    /\ total_allocated_ = A.total
    /\ next_block_size_ = A.next

ArenaStart ==
    /\ \/ \E n \in BufSizes :
             /\ initial_buf_ = TRUE
             /\ initial_size_ = n
             /\ Constructed(ExternalArena(n))
       \/ \E n \in HeapSizes :
             /\ initial_buf_ = FALSE
             /\ initial_size_ = 0
             /\ Constructed(HeapArena(n))
    /\ cycleAllocs = 0
    /\ afterReset = <<>>

\* One allocation of the parse running in the current cycle.
Allocate(size, align) ==
    /\ cycleAllocs < ArenaMaxAllocs
    /\ SetArena(allocate(ArenaFields, size, align))
    /\ cycleAllocs' = cycleAllocs + 1
    /\ UNCHANGED <<initial_buf_, initial_size_, afterReset>>

\* arena.reset() at the end of a cycle, followed by bytes_allocated().
Reset ==
    /\ Len(afterReset) < ArenaMaxCycles
    /\ LET R == reset(ArenaFields, initial_buf_, initial_size_)
       IN  /\ SetArena(R)
           /\ afterReset' = Append(afterReset, R.total)
    /\ cycleAllocs' = 0
    /\ UNCHANGED <<initial_buf_, initial_size_>>

\* block_count(): the length of the blocks_ list.
block_count(A) == Len(A.blocks)

RECURSIVE BlocksCapacity(_)
BlocksCapacity(blocks) ==
    IF blocks = <<>> THEN 0 ELSE Head(blocks) + BlocksCapacity(Tail(blocks))

\* data_capacity(): initial_size_ plus the capacity of every block.
data_capacity(A) == initial_size_ + BlocksCapacity(A.blocks)

\* bytes_remaining(): what is left of the current block.
bytes_remaining(A) == IF A.end > A.ptr THEN A.end - A.ptr ELSE 0

\* bytes_used()
bytes_used(A) == data_capacity(A) - bytes_remaining(A)

ArenaInit == ArenaStart /\ IdleButArena

ArenaNext ==
    \/ (\E size \in AllocSizes, align \in Aligns : Allocate(size, align))
          /\ NotArena
    \/ Reset /\ NotArena

SpecArena == ArenaInit /\ [][ArenaNext]_vars

---------------------------------------------------------------------------
(* ArenaScope and the thread-local active-arena pointer *)

MaxNest == 2

ScopeThreads == {"main", "worker"}
ScopeArenas == {"arena1", "arena2"}
NullArena == "nullptr"
NoExit == [how |-> "none", arena |-> NullArena]

\* The innermost live scope of a thread.
Innermost(st) == st[Len(st)]

\* A thread inside parse(input, arena, opts) runs the parser: it creates
\* and destroys no other scope until the call returns or throws.
InParse(st) == st # <<>> /\ Innermost(st).by = "parse"

\* ArenaScope(arena): prev_(detail::current_arena), current_arena = &arena.
Construct(t, a, by) ==
    /\ scopes' = [scopes EXCEPT ![t] =
                     Append(@, [arena |-> a, prev_ |-> current_arena[t],
                                by |-> by])]
    /\ current_arena' = [current_arena EXCEPT ![t] = a]
    /\ lastExit' = [lastExit EXCEPT ![t] = NoExit]

\* The pointer ~ArenaScope leaves in current_arena: reset to no arena.
Deactivated(s) == NullArena

\* The pointer ~ArenaScope leaves in current_arena: prev_.
Restored(s) == s.prev_

\* ~ArenaScope of the thread's innermost scope.
Destroy(t, how) ==
    /\ current_arena' = [current_arena EXCEPT ![t] =
                            Restored(Innermost(scopes[t]))]
    /\ lastExit' = [lastExit EXCEPT ![t] =
                       [how |-> how, arena |-> Innermost(scopes[t]).arena]]
    /\ scopes' = [scopes EXCEPT ![t] = SubSeq(@, 1, Len(@) - 1)]

\* A block declares ArenaScope scope(arena).
ScopeEnter(t, a) ==
    /\ ~InParse(scopes[t])
    /\ Len(scopes[t]) < MaxNest
    /\ Construct(t, a, "user")

\* The block of the innermost scope ends.
ScopeLeave(t) ==
    /\ scopes[t] # <<>>
    /\ Innermost(scopes[t]).by = "user"
    /\ Destroy(t, "normal")

\* An exception propagates out of the block of the innermost scope.
ScopeUnwind(t) ==
    /\ scopes[t] # <<>>
    /\ Innermost(scopes[t]).by = "user"
    /\ Destroy(t, "exception")

\* parse(input, arena, opts): ArenaScope scope(arena), then the parser runs.
ParseCall(t, a) ==
    /\ ~InParse(scopes[t])
    /\ Construct(t, a, "parse")

\* parse(input, arena, opts) returns the value.
ParseReturn(t) ==
    /\ InParse(scopes[t])
    /\ Destroy(t, "normal")

\* parse(input, arena, opts) throws ParseError.
ParseThrow(t) ==
    /\ InParse(scopes[t])
    /\ Destroy(t, "parse_error")

ScopeStart ==
    /\ current_arena = [t \in ScopeThreads |-> NullArena]
    /\ scopes = [t \in ScopeThreads |-> <<>>]
    /\ lastExit = [t \in ScopeThreads |-> NoExit]

ScopeInit == ScopeStart /\ IdleButScope

ScopeNext ==
    \/ (\E t \in ScopeThreads, a \in ScopeArenas : ScopeEnter(t, a)) /\ NotScope
    \/ (\E t \in ScopeThreads : ScopeLeave(t)) /\ NotScope
    \/ (\E t \in ScopeThreads : ScopeUnwind(t)) /\ NotScope
    \/ (\E t \in ScopeThreads, a \in ScopeArenas : ParseCall(t, a)) /\ NotScope
    \/ (\E t \in ScopeThreads : ParseReturn(t)) /\ NotScope
    \/ (\E t \in ScopeThreads : ParseThrow(t)) /\ NotScope

SpecScope == ScopeInit /\ [][ScopeNext]_vars

---------------------------------------------------------------------------
(* Parser over a text (parser.hpp).  A text is a sequence of bytes, each    *)
(* written by name: "[" "]" "{" "}" "," ":" "/" "*" are themselves, "1" is *)
(* the digit 1 ("0" to "9" are the digits), "q" the double quote, "bs" the backslash, "x" a letter     *)
(* that starts no literal and no escape, "sp" "tab" "nl" "cr" the four     *)
(* JSON whitespace bytes and "ctl" a control byte below 0x20 other than     *)
(* tab, LF and CR.  ptr_ is an index into the text, end_ is Len(t) + 1.     *)

YAJSON_MAX_DEPTH == 512

Whitespace == {"sp", "tab", "nl", "cr"}

\* '0' .. '9', in order.
DecimalDigits == <<"0", "1", "2", "3", "4", "5", "6", "7", "8", "9">>

IsDigit(b) == \E n \in 1..10 : DecimalDigits[n] = b

\* *ptr_ - '0'
DigitValue(b) == (CHOOSE n \in 1..10 : DecimalDigits[n] = b) - 1

\* static_cast<unsigned char>(b) > ' '
AboveSpace(b) == b \notin Whitespace \cup {"ctl"}

\* ParseOptions::strict(), lenient() and json5(), with the fields the
\* modelled bytes can reach.
StrictOptions ==
    [allow_comments |-> FALSE, allow_trailing_commas |-> FALSE,
     allow_unquoted_keys |-> FALSE, allow_control_chars |-> FALSE,
     max_depth |-> 0]

LenientOptions ==
    [StrictOptions EXCEPT !.allow_comments = TRUE,
                          !.allow_trailing_commas = TRUE,
                          !.allow_unquoted_keys = TRUE]

Json5Options == [LenientOptions EXCEPT !.allow_control_chars = TRUE]

\* Parser::Parser: max_depth_.
max_depth_(o) == IF o.max_depth > 0 THEN o.max_depth ELSE YAJSON_MAX_DEPTH

\* How a parsing function ends: it returns with ptr_ = pos and depth_ =
\* depth, or error(code) throws ParseError at ptr_ = pos.
Returned(pos, depth) == [code |-> "ok", pos |-> pos, depth |-> depth]

Thrown(code, pos, depth) == [code |-> code, pos |-> pos, depth |-> depth]

\* Parser::error_unexpected_char.
error_unexpected_char(t, p, d) ==
    IF p > Len(t) THEN Thrown("unexpected_end_of_input", p, d)
    ELSE Thrown("unexpected_character", p, d)

\* Parser::expect(c): the position after c, or the error thrown.
expect(t, p, d, c) ==
    IF p <= Len(t) /\ t[p] = c THEN Returned(p + 1, d)
    ELSE error_unexpected_char(t, p, d)

RECURSIVE skip_whitespace_slow(_, _)
\* Parser::skip_whitespace_slow: the scalar loop; simd::skip_whitespace,
\* taken when 16 bytes or more remain, stops at the same byte.
skip_whitespace_slow(t, p) ==
    IF p <= Len(t) /\ t[p] \in Whitespace
    THEN skip_whitespace_slow(t, p + 1)
    ELSE p

\* Parser::skip_whitespace: the three fast paths, then the slow path.
skip_whitespace(t, p) ==
    IF p <= Len(t) /\ AboveSpace(t[p]) THEN p
    ELSE IF p + 1 <= Len(t) /\ AboveSpace(t[p + 1]) THEN p + 1
    ELSE IF p + 2 <= Len(t) /\ AboveSpace(t[p + 2]) THEN p + 2
    ELSE skip_whitespace_slow(t, p)

RECURSIVE LineEnd(_, _)
\* skip_comments, line comment: while (ptr_ < end_ && *ptr_ != '\n') ++ptr_
LineEnd(t, p) ==
    IF p <= Len(t) /\ t[p] # "nl" THEN LineEnd(t, p + 1) ELSE p

RECURSIVE BlockEnd(_, _)
\* skip_comments, block comment: the loop looking for "*/".
BlockEnd(t, p) ==
    IF p + 1 <= Len(t)
    THEN IF t[p] = "*" /\ t[p + 1] = "/" THEN p + 2 ELSE BlockEnd(t, p + 1)
    ELSE p

RECURSIVE skip_comments(_, _)
\* Parser::skip_comments.
skip_comments(t, p) ==
    IF p + 1 <= Len(t) /\ t[p] = "/"
    THEN IF t[p + 1] = "/"
         THEN LET e == LineEnd(t, p + 2)
                  n == IF e <= Len(t) THEN e + 1 ELSE e
              IN  skip_comments(t, skip_whitespace(t, n))
         ELSE IF t[p + 1] = "*"
         THEN skip_comments(t, skip_whitespace(t, BlockEnd(t, p + 2)))
         ELSE p
    ELSE p

\* Parser::skip_ws_and_comments (with skip_comments_and_ws).
skip_ws_and_comments(t, p, o) ==
    LET w == skip_whitespace(t, p)
    IN  IF o.allow_comments THEN skip_whitespace(t, skip_comments(t, w))
        ELSE w

RECURSIVE find_string_delimiter(_, _)
\* simd::find_string_delimiter: the first '"' or '\\' at or after p, or end_.
find_string_delimiter(t, p) ==
    IF p <= Len(t) /\ t[p] \notin {"q", "bs"}
    THEN find_string_delimiter(t, p + 1)
    ELSE p

\* Parser::parse_escape, entered after the backslash.
parse_escape(t, p, d) ==
    IF p > Len(t) THEN Thrown("invalid_escape", p, d)
    ELSE IF t[p] \in {"q", "bs", "/"} THEN Returned(p + 1, d)
    ELSE Thrown("invalid_escape", p + 1, d)

RECURSIVE parse_string_content_into(_, _, _)
\* Parser::parse_string_content_into with quote = '"'.
parse_string_content_into(t, p, d) ==
    LET delim == find_string_delimiter(t, p)
    IN  IF delim > Len(t) THEN Thrown("unterminated_string", delim, d)
        ELSE IF t[delim] = "q" THEN Returned(delim + 1, d)
        ELSE LET e == parse_escape(t, delim + 1, d)
             IN  IF e.code # "ok" THEN e
                 ELSE parse_string_content_into(t, e.pos, d)

\* Parser::parse_string (an object key), entered at the opening quote.
parse_string(t, p, d) ==
    LET delim == find_string_delimiter(t, p + 1)
    IN  IF delim <= Len(t) /\ t[delim] = "q" THEN Returned(delim + 1, d)
        ELSE parse_string_content_into(t, delim, d)

\* Parser::parse_string_value: the same scan as parse_string.
parse_string_value(t, p, d) ==
    LET delim == find_string_delimiter(t, p + 1)
    IN  IF delim <= Len(t) /\ t[delim] = "q" THEN Returned(delim + 1, d)
        ELSE parse_string_content_into(t, delim, d)

RECURSIVE DigitsEnd(_, _)
\* parse_number: while (ptr_ < end_ && *ptr_ is a digit) ++ptr_
DigitsEnd(t, p) ==
    IF p <= Len(t) /\ IsDigit(t[p]) THEN DigitsEnd(t, p + 1) ELSE p

\* Parser::parse_number on an unsigned integer: a lone 0, or a run of
\* digits.
parse_number(t, p, d) ==
    IF t[p] = "0" THEN Returned(p + 1, d) ELSE Returned(DigitsEnd(t, p + 1), d)

RECURSIVE IdentEnd(_, _)
\* parse_unquoted_key: while (ptr_ < end_ && is_ident_char(*ptr_)) ++ptr_
IdentEnd(t, p) ==
    IF p <= Len(t) /\ (t[p] = "x" \/ IsDigit(t[p]))
    THEN IdentEnd(t, p + 1)
    ELSE p

\* A depth check that already refuses the opener reaching max_depth.
push_depth_early(d, o) == [depth |-> d + 1, throws |-> d + 1 >= max_depth_(o)]

\* Parser::push_depth: the depth after ++depth_, and whether it throws.
push_depth(d, o) == [depth |-> d + 1, throws |-> d + 1 > max_depth_(o)]

\* Parser::pop_depth.
pop_depth(d) == d - 1

RECURSIVE parse_value(_, _, _, _)
RECURSIVE ArrayLoop(_, _, _, _)
RECURSIVE ObjectLoop(_, _, _, _)

\* A local variable: x is computed once and the rest F works on its value.
Local(x, F(_)) == CHOOSE r \in {F(v) : v \in {x}} : TRUE

\* Parser::parse_array, the for (;;) loop, after an element ended at q.
ArrayNext(t, q, d, o) ==
    IF q > Len(t) THEN Thrown("unterminated_array", q, d)
    ELSE IF t[q] = ","
    THEN Local(skip_ws_and_comments(t, q + 1, o), LAMBDA n :
             IF o.allow_trailing_commas /\ n <= Len(t) /\ t[n] = "]"
             THEN Returned(n + 1, pop_depth(d))
             ELSE ArrayLoop(t, n, d, o))
    ELSE IF t[q] = "]" THEN Returned(q + 1, pop_depth(d))
    ELSE Thrown("unexpected_character", q, d)

\* Parser::parse_array, the for (;;) loop, entered before an element.
ArrayLoop(t, p, d, o) ==
    Local(parse_value(t, p, d, o), LAMBDA v :
        IF v.code # "ok" THEN v
        ELSE Local(skip_ws_and_comments(t, v.pos, o), LAMBDA q :
                 ArrayNext(t, q, d, o)))

\* Parser::parse_array, entered at '['.
parse_array(t, p, d, o) ==
    LET pd == push_depth(d, o)
        q == skip_ws_and_comments(t, p + 1, o)
    IN  IF pd.throws THEN Thrown("max_depth_exceeded", p + 1, pd.depth)
        ELSE IF q > Len(t) THEN Thrown("unterminated_array", q, pd.depth)
        ELSE IF t[q] = "]" THEN Returned(q + 1, pop_depth(pd.depth))
        ELSE ArrayLoop(t, q, pd.depth, o)

\* Parser::parse_object, the key of a member, entered at k.
ObjectKey(t, k, d, o) ==
    IF k <= Len(t) /\ t[k] = "q" THEN parse_string(t, k, d)
    ELSE IF o.allow_unquoted_keys /\ k <= Len(t) /\ t[k] = "x"
    THEN Returned(IdentEnd(t, k + 1), d)
    ELSE Thrown("unterminated_object", k, d)

\* Parser::parse_object, the for (;;) loop, after a member ended at q.
ObjectNext(t, q, d, o) ==
    IF q > Len(t) THEN Thrown("unterminated_object", q, d)
    ELSE IF t[q] = ","
    THEN Local(skip_ws_and_comments(t, q + 1, o), LAMBDA n :
             IF o.allow_trailing_commas /\ n <= Len(t) /\ t[n] = "}"
             THEN Returned(n + 1, pop_depth(d))
             ELSE ObjectLoop(t, n, d, o))
    ELSE IF t[q] = "}" THEN Returned(q + 1, pop_depth(d))
    ELSE Thrown("unexpected_character", q, d)

\* Parser::parse_object, the for (;;) loop, entered before a key.
ObjectLoop(t, p, d, o) ==
    Local(ObjectKey(t, skip_ws_and_comments(t, p, o), d, o), LAMBDA key :
        IF key.code # "ok" THEN key
        ELSE Local(expect(t, skip_ws_and_comments(t, key.pos, o), d, ":"),
                   LAMBDA colon :
            IF colon.code # "ok" THEN colon
            ELSE Local(parse_value(t, colon.pos, d, o), LAMBDA v :
                IF v.code # "ok" THEN v
                ELSE Local(skip_ws_and_comments(t, v.pos, o), LAMBDA q :
                         ObjectNext(t, q, d, o)))))

\* Parser::parse_object, entered at '{'.
parse_object(t, p, d, o) ==
    LET pd == push_depth(d, o)
        q == skip_ws_and_comments(t, p + 1, o)
    IN  IF pd.throws THEN Thrown("max_depth_exceeded", p + 1, pd.depth)
        ELSE IF q > Len(t) THEN Thrown("unterminated_object", q, pd.depth)
        ELSE IF t[q] = "}" THEN Returned(q + 1, pop_depth(pd.depth))
        ELSE ObjectLoop(t, q, pd.depth, o)

\* Parser::parse_value.
parse_value(t, p, d, o) ==
    LET q == skip_ws_and_comments(t, p, o)
    IN  IF q > Len(t) THEN Thrown("unexpected_end_of_input", q, d)
        ELSE IF t[q] = "q" THEN parse_string_value(t, q, d)
        ELSE IF t[q] = "{" THEN parse_object(t, q, d, o)
        ELSE IF t[q] = "[" THEN parse_array(t, q, d, o)
        ELSE IF IsDigit(t[q]) THEN parse_number(t, q, d)
        ELSE error_unexpected_char(t, q, d)

\* Parser::parse(input, opts): the root value, then what may follow it.
parse(t, o) ==
    Local(parse_value(t, 1, 0, o), LAMBDA v :
        IF v.code # "ok" THEN v
        ELSE LET w == skip_whitespace(t, v.pos)
                 e == IF o.allow_comments THEN skip_comments(t, w) ELSE w
             IN  IF e <= Len(t) THEN Thrown("trailing_content", e, v.depth)
                 ELSE Returned(e, v.depth))

\* Parser::try_parse(input, opts): the ec of the result; no error is "ok".
try_parse(t, o) == parse(t, o).code

\* No parse has been applied to the input yet.
NotParsed == [code |-> "none", pos |-> 0, depth |-> 0]

\* Whether a longer text can still end differently: the parse returned, or
\* it threw within the two bytes of lookahead of skip_whitespace.
Undecided == parsed.code \in {"none", "ok"} \/ parsed.pos + 2 > Len(input)

\* The caller has chosen the options and the bytes of its texts.
TextStart(o, bytes) ==
    /\ input = <<>>
    /\ opts = o
    /\ alphabet = bytes
    /\ parsed = NotParsed
    /\ ec = "none"

\* parse(input, opts) on the previous text extended by byte b.
Parse(b, maxlen) ==
    /\ opts # <<>>
    /\ Undecided
    /\ Len(input) < maxlen
    /\ input' = Append(input, b)
    /\ parsed' = parse(input', opts)
    /\ ec' = "none"
    /\ UNCHANGED <<opts, alphabet>>

\* try_parse(input, opts) on the text last parsed.
TryParse ==
    /\ opts # <<>>
    /\ parsed.code # "none"
    /\ ec = "none"
    /\ ec' = try_parse(input, opts)
    /\ UNCHANGED <<input, opts, alphabet, parsed>>

TextNext(maxlen) ==
    \/ \E b \in alphabet : Parse(b, maxlen) /\ NotText
    \/ TryParse /\ NotText

\* Texts of brackets, braces, commas, colons, digits and quotes, parsed with
\* max_depth = 1 or 2.
DepthLen == 6
DepthLimits == {1, 2}
DepthBytes == {"[", "]", "{", "}", ",", ":", "1", "q"}

DepthInit ==
    /\ \E n \in DepthLimits :
           TextStart([StrictOptions EXCEPT !.max_depth = n], DepthBytes)
    /\ IdleButText

DepthNext == TextNext(DepthLen)

SpecDepth == DepthInit /\ [][DepthNext]_vars

\* Strict-mode texts of digits, brackets, commas, whitespace and a control
\* byte.
WsLen == 5
WsBytes == {"[", "]", ",", "1", "sp", "nl", "ctl"}

WhitespaceInit == TextStart(StrictOptions, WsBytes) /\ IdleButText

WhitespaceNext == TextNext(WsLen)

SpecWhitespace == WhitespaceInit /\ [][WhitespaceNext]_vars

\* Texts of quotes, letters, backslashes and a control byte, parsed with
\* the strict and with the json5 options.
StrLen == 5
StrBytes == {"q", "x", "bs", "ctl"}

StringInit ==
    /\ \E o \in {StrictOptions, Json5Options} : TextStart(o, StrBytes)
    /\ IdleButText

StringNext == TextNext(StrLen)

SpecString == StringInit /\ [][StringNext]_vars

\* Texts of digits, letters, whitespace, a control byte and the bytes of
\* comments, parsed with comments off and on.
TrailLen == 5
TrailBytes == {"1", "x", "sp", "nl", "ctl", "/", "*"}

TrailingInit ==
    /\ \E c \in BOOLEAN :
           TextStart([StrictOptions EXCEPT !.allow_comments = c], TrailBytes)
    /\ IdleButText

TrailingNext == TextNext(TrailLen)

SpecTrailing == TrailingInit /\ [][TrailingNext]_vars

---------------------------------------------------------------------------
(* Values, the serializer and the parser that builds values.  A JsonValue   *)
(* is written as the sequence of its nodes in construction order: the       *)
(* children of a container come before it and the root is last.  A         *)
(* container node holds the positions of its children.  The recursion of    *)
(* write_value and parse_value over the nesting is unfolded, node by node   *)
(* and token by token, so that values nested deeper than YAJSON_MAX_DEPTH   *)
(* can be written and parsed.                                               *)

Node(type, int, str, items, keys) ==
    [type |-> type, int |-> int, str |-> str, items |-> items, keys |-> keys]

\* JsonValue(int64_t)
IntegerNode(n) == Node("Integer", n, <<>>, <<>>, <<>>)

\* JsonValue(std::string_view)
StringNode(s) == Node("String", 0, s, <<>>, <<>>)

\* JsonValue(Array): the positions of its elements.
ArrayNode(items) == Node("Array", 0, <<>>, items, <<>>)

\* JsonValue(Object): entry j has key keys[j] and the value at items[j].
ObjectNode(keys, items) == Node("Object", 0, <<>>, items, keys)

\* The nodes of v moved up by k positions.
Shifted(v, k) ==
    [i \in 1..Len(v) |->
        [v[i] EXCEPT !.items = [j \in 1..Len(@) |-> @[j] + k]]]

RECURSIVE Gathered(_, _, _)
\* The values vs laid out one after the other behind the nodes acc:
\* [nodes, roots].
Gathered(vs, acc, roots) ==
    IF vs = <<>> THEN [nodes |-> acc, roots |-> roots]
    ELSE Gathered(Tail(vs), acc \o Shifted(Head(vs), Len(acc)),
                  Append(roots, Len(acc) + Len(Head(vs))))

\* JsonValue::array() followed by push_back of each of vs.
ArrayOf(vs) ==
    Append(Gathered(vs, <<>>, <<>>).nodes,
           ArrayNode(Gathered(vs, <<>>, <<>>).roots))

\* JsonValue::object() followed by Object::emplace_back(ks[j], vs[j]).
ObjectOf(ks, vs) ==
    Append(Gathered(vs, <<>>, <<>>).nodes,
           ObjectNode(ks, Gathered(vs, <<>>, <<>>).roots))

\* The integer 1 wrapped k times: a = array(); a.push_back(std::move(v)), or
\* o = object(); o["k"] = std::move(v).
Nested(kind, k) ==
    [i \in 1..(k + 1) |->
        IF i = 1 THEN IntegerNode(1)
        ELSE IF kind = "Array" THEN ArrayNode(<<i - 1>>)
        ELSE ObjectNode(<<(<<"k">>)>>, <<i - 1>>)]

RECURSIVE write_u64(_)
\* detail::write_u64: the decimal digits of n.
write_u64(n) ==
    IF n < 10 THEN <<DecimalDigits[n + 1]>>
    ELSE Append(write_u64(n \div 10), DecimalDigits[(n % 10) + 1])

\* SerializerCore::write_integer for val >= 0.
write_integer(n) == write_u64(n)

RECURSIVE Escaped(_)
\* write_string: the bytes of s with '"' and '\\' escaped.
Escaped(s) ==
    IF s = <<>> THEN <<>>
    ELSE (IF Head(s) \in {"q", "bs"} THEN <<"bs", Head(s)>> ELSE <<Head(s)>>)
         \o Escaped(Tail(s))

\* SerializerCore::write_string without control bytes in s.
write_string(s) == <<"q">> \o Escaped(s) \o <<"q">>

RECURSIVE ElementsFrom(_, _, _)
\* write_array, the loop from element j on; texts[c] is what write_value
\* writes for the node at position c.
ElementsFrom(n, texts, j) ==
    IF j > Len(n.items) THEN <<>>
    ELSE (IF j > 1 THEN <<",">> ELSE <<>>) \o texts[n.items[j]]
         \o ElementsFrom(n, texts, j + 1)

\* SerializerCore::write_array, compact output.
write_array(n, texts) ==
    IF n.items = <<>> THEN <<"[", "]">>
    ELSE <<"[">> \o ElementsFrom(n, texts, 1) \o <<"]">>

RECURSIVE EntriesFrom(_, _, _)
\* write_object_ordered, from entry j on.
EntriesFrom(n, texts, j) ==
    IF j > Len(n.items) THEN <<>>
    ELSE (IF j > 1 THEN <<",">> ELSE <<>>) \o write_string(n.keys[j])
         \o <<":">> \o texts[n.items[j]] \o EntriesFrom(n, texts, j + 1)

\* SerializerCore::write_object, compact output, keys not sorted.
write_object(n, texts) ==
    IF n.items = <<>> THEN <<"{", "}">>
    ELSE <<"{">> \o EntriesFrom(n, texts, 1) \o <<"}">>

\* SerializerCore::write_value for node n.
write_value(n, texts) ==
    IF n.type = "Integer" THEN write_integer(n.int)
    ELSE IF n.type = "String" THEN write_string(n.str)
    ELSE IF n.type = "Array" THEN write_array(n, texts)
    ELSE write_object(n, texts)

RECURSIVE Written(_, _, _, _)
\* What write_value writes for each of the nodes lo..hi of v, appended to
\* texts (the nodes before lo).
Written(v, lo, hi, texts) ==
    IF lo = hi THEN Append(texts, write_value(v[lo], texts))
    ELSE Local(Written(v, lo, (lo + hi) \div 2, texts), LAMBDA half :
             Written(v, (lo + hi) \div 2 + 1, hi, half))

\* serialize(value): SerializerCore::serialize, compact.
serialize(v) == Written(v, 1, Len(v), <<>>)[Len(v)]

\* The parser at a point of its work: code "run" while parsing, "ok" or the
\* errc once parse has ended; ptr_ = pos, depth_ = depth; what it does next
\* at ptr_ (phase); the containers being parsed, outermost first (stack);
\* the values completed so far (nodes).
ParserStart ==
    [code |-> "run", pos |-> 1, depth |-> 0, phase |-> "value",
     stack |-> <<>>, nodes |-> <<>>]

\* A container being parsed: its elements so far, with their keys, and the
\* key read last.
Frame(kind) == [kind |-> kind, items |-> <<>>, keys |-> <<>>, key |-> <<>>]

\* error(code) at ptr_ = p.
Failed(s, code, p) == [s EXCEPT !.code = code, !.pos = p]

\* A value has been parsed up to p: it is returned to parse() or pushed to
\* the container that called parse_value.
Completed(s, n, p) ==
    LET at == Len(s.nodes) + 1
        top == Len(s.stack)
    IN  IF top = 0
        THEN [s EXCEPT !.nodes = Append(@, n), !.pos = p, !.phase = "end"]
        ELSE [s EXCEPT !.nodes = Append(@, n), !.pos = p,
                       !.phase = IF s.stack[top].kind = "Array"
                                 THEN "array_next" ELSE "object_next",
                       !.stack[top].items = Append(@, at),
                       !.stack[top].keys = Append(@, s.stack[top].key)]

\* The entries of a parsed object after finalize_object.
Finalized(f) ==
    finalize_object([j \in 1..Len(f.items) |->
                        [key |-> f.keys[j], val |-> f.items[j]]]).es

\* The closer of the innermost container was consumed, ptr_ = p: pop_depth,
\* finalize_object for an object, and the container is returned.
Closed(s, p) ==
    LET f == s.stack[Len(s.stack)]
        es == Finalized(f)
        n == IF f.kind = "Array" THEN ArrayNode(f.items)
             ELSE ObjectNode([j \in 1..Len(es) |-> es[j].key],
                             [j \in 1..Len(es) |-> es[j].val])
    IN  Completed([s EXCEPT !.depth = pop_depth(@),
                            !.stack = SubSeq(@, 1, Len(@) - 1)], n, p)

RECURSIVE StringContent(_, _)
\* The characters parse_string builds from the literal whose content starts
\* at p: parse_escape gives the escaped byte itself.
StringContent(t, p) ==
    IF p > Len(t) \/ t[p] = "q" THEN <<>>
    ELSE IF t[p] = "bs" THEN <<t[p + 1]>> \o StringContent(t, p + 2)
    ELSE <<t[p]>> \o StringContent(t, p + 1)

RECURSIVE NumberValue(_, _, _)
\* parse_number: int_val = int_val * 10 + digit over the digits p .. e - 1.
NumberValue(t, p, e) ==
    IF e <= p THEN 0
    ELSE NumberValue(t, p, e - 1) * 10 + DigitValue(t[e - 1])

\* parse_array / parse_object from the opener at q: ++ptr_, push_depth, and
\* the test for an empty container.
Opened(t, o, s, q, kind) ==
    LET pd == push_depth(s.depth, o)
        n == skip_ws_and_comments(t, q + 1, o)
        in == [s EXCEPT !.depth = pd.depth, !.stack = Append(@, Frame(kind))]
    IN  IF pd.throws
        THEN Failed([s EXCEPT !.depth = pd.depth], "max_depth_exceeded", q + 1)
        ELSE IF n > Len(t)
        THEN Failed(in, IF kind = "Array" THEN "unterminated_array"
                        ELSE "unterminated_object", n)
        ELSE IF t[n] = (IF kind = "Array" THEN "]" ELSE "}")
        THEN Closed(in, n + 1)
        ELSE [in EXCEPT !.pos = n,
                        !.phase = IF kind = "Array" THEN "value"
                                  ELSE "object_key"]

\* parse_value entered at ptr_ = s.pos.
ValueAt(t, o, s) ==
    LET q == skip_ws_and_comments(t, s.pos, o)
        str == parse_string_value(t, q, s.depth)
        num == parse_number(t, q, s.depth)
    IN  IF q > Len(t) THEN Failed(s, "unexpected_end_of_input", q)
        ELSE IF t[q] = "q"
        THEN IF str.code # "ok" THEN Failed(s, str.code, str.pos)
             ELSE Completed(s, StringNode(StringContent(t, q + 1)), str.pos)
        ELSE IF t[q] = "{" THEN Opened(t, o, s, q, "Object")
        ELSE IF t[q] = "[" THEN Opened(t, o, s, q, "Array")
        ELSE IF IsDigit(t[q])
        THEN Completed(s, IntegerNode(NumberValue(t, q, num.pos)), num.pos)
        ELSE Failed(s, "unexpected_character", q)

\* parse_array / parse_object after an element or member, ptr_ = s.pos.
AfterElement(t, o, s) ==
    LET array == s.phase = "array_next"
        closer == IF array THEN "]" ELSE "}"
        q == skip_ws_and_comments(t, s.pos, o)
        n == skip_ws_and_comments(t, q + 1, o)
    IN  IF q > Len(t)
        THEN Failed(s, IF array THEN "unterminated_array"
                       ELSE "unterminated_object", q)
        ELSE IF t[q] = ","
        THEN IF o.allow_trailing_commas /\ n <= Len(t) /\ t[n] = closer
             THEN Closed(s, n + 1)
             ELSE [s EXCEPT !.pos = n,
                            !.phase = IF array THEN "value" ELSE "object_key"]
        ELSE IF t[q] = closer THEN Closed(s, q + 1)
        ELSE Failed(s, "unexpected_character", q)

\* parse_object at the key of a member, ptr_ = s.pos: the key and the ':'.
KeyAt(t, o, s) ==
    LET k == skip_ws_and_comments(t, s.pos, o)
        key == ObjectKey(t, k, s.depth, o)
        colon == expect(t, skip_ws_and_comments(t, key.pos, o), s.depth, ":")
        name == IF t[k] = "q" THEN StringContent(t, k + 1)
                ELSE SubSeq(t, k, key.pos - 1)
    IN  IF key.code # "ok" THEN Failed(s, key.code, key.pos)
        ELSE IF colon.code # "ok" THEN Failed(s, colon.code, colon.pos)
        ELSE [s EXCEPT !.pos = colon.pos, !.phase = "value",
                       !.stack[Len(s.stack)].key = name]

\* Parser::parse after the root value: what may follow it.
EndAt(t, o, s) ==
    LET w == skip_whitespace(t, s.pos)
        e == IF o.allow_comments THEN skip_comments(t, w) ELSE w
    IN  IF e <= Len(t) THEN Failed(s, "trailing_content", e)
        ELSE [s EXCEPT !.code = "ok", !.pos = e]

\* What the parser does when ptr_ reaches byte i.
ParserStep(t, o, s, i) ==
    IF s.code # "run" \/ s.pos # i THEN s
    ELSE IF s.phase = "value" THEN ValueAt(t, o, s)
    ELSE IF s.phase = "object_key" THEN KeyAt(t, o, s)
    ELSE IF s.phase = "end" THEN EndAt(t, o, s)
    ELSE AfterElement(t, o, s)

RECURSIVE ParserRun(_, _, _, _, _)
\* The parser taken from ptr_ = lo up to ptr_ = hi.
ParserRun(t, o, s, lo, hi) ==
    IF lo = hi THEN ParserStep(t, o, s, lo)
    ELSE Local(ParserRun(t, o, s, lo, (lo + hi) \div 2), LAMBDA half :
             ParserRun(t, o, half, (lo + hi) \div 2 + 1, hi))

\* Parser::parse(input, opts) with the value it returns: [code, pos, val].
parse_document(t, o) ==
    Local(ParserRun(t, o, ParserStart, 1, Len(t) + 1), LAMBDA s :
        [code |-> s.code, pos |-> s.pos,
         val |-> IF s.code = "ok" THEN s.nodes ELSE <<>>])

\* Object::find(key) on an object node of fewer than kIndexThreshold
\* entries: the position of the first entry with that key, 0 for nullptr.
FindEntry(n, key) ==
    IF \E j \in 1..Len(n.keys) : n.keys[j] = key
    THEN CHOOSE j \in 1..Len(n.keys) :
             n.keys[j] = key /\ \A h \in 1..(j - 1) : n.keys[h] # key
    ELSE 0

\* JsonValue::operator== on the nodes x of a and y of b, their children
\* compared by position.
NodeEqual(x, y) ==
    /\ x.type = y.type
    /\ x.int = y.int
    /\ x.str = y.str
    /\ Len(x.items) = Len(y.items)
    /\ IF x.type = "Object"
       THEN \A j \in 1..Len(x.items) :
                /\ FindEntry(y, x.keys[j]) # 0
                /\ y.items[FindEntry(y, x.keys[j])] = x.items[j]
       ELSE x.items = y.items

\* a == b for two values whose nodes are in the same construction order, as
\* those of a value and of the parse of its serialization are.
ValueEqual(a, b) ==
    /\ Len(a) = Len(b)
    /\ \A i \in 1..Len(a) : NodeEqual(a[i], b[i])

\* The values of the round trips: the integer 1 nested 0 to NestSmall deep
\* and around YAJSON_MAX_DEPTH deep in arrays or in objects, and a few small
\* documents.
NestSmall == 20
NestDeep == {YAJSON_MAX_DEPTH - 1, YAJSON_MAX_DEPTH, YAJSON_MAX_DEPTH + 1}

SmallValues ==
    {<<IntegerNode(0)>>, <<IntegerNode(907)>>,
     <<StringNode(<<>>)>>, <<StringNode(<<"x", "q", "bs", "x">>)>>,
     ArrayOf(<<>>), ObjectOf(<<>>, <<>>),
     ArrayOf(<<(<<IntegerNode(1)>>), ArrayOf(<<>>),
               (<<StringNode(<<"x">>)>>)>>),
     ObjectOf(<<(<<"x">>), (<<"k", "q">>)>>,
              <<(<<IntegerNode(12)>>), Nested("Array", 2)>>),
     ObjectOf(<<(<<"k">>), (<<"k">>)>>,
              <<(<<IntegerNode(1)>>), (<<IntegerNode(2)>>)>>)}

RoundValues ==
    {Nested(kind, k) : kind \in {"Array", "Object"},
                       k \in (0..NestSmall) \cup NestDeep}
      \cup SmallValues

\* No call of parse yet.
NotParsedBack == [code |-> "none", val |-> <<>>]

\* A value has been built through the API.
RoundStart ==
    /\ rvalue \in RoundValues
    /\ rtext = <<>>
    /\ rback = NotParsedBack

\* text = serialize(value)
Serialize ==
    /\ rvalue # <<>>
    /\ rtext = <<>>
    /\ rtext' = serialize(rvalue)
    /\ UNCHANGED <<rvalue, rback>>

\* back = parse(text), default options.
ParseBack ==
    /\ rtext # <<>>
    /\ rback.code = "none"
    /\ rback' = [code |-> parse_document(rtext, StrictOptions).code,
                 val |-> parse_document(rtext, StrictOptions).val]
    /\ UNCHANGED <<rvalue, rtext>>

RoundInit == RoundStart /\ IdleButRound

RoundNext ==
    \/ Serialize /\ NotRound
    \/ ParseBack /\ NotRound

SpecRound == RoundInit /\ [][RoundNext]_vars

(***************************************************************************)
(* ThreadSafeJson::write(fn) and update(fn) used as a counter: every       *)
(* thread runs kIterations increments of the stored integer.               *)
(***************************************************************************)
kIterations == 2
CounterStarts == {0, 10}

\* JsonValue(int64_t).
IntegerValue(n) == [kind |-> "integer", int |-> n]

\* JsonValue(JsonValue&&) applied to v: the source keeps its payload and
\* becomes Null.
MovedFrom(v) == [v EXCEPT !.kind = "null"]

\* JsonValue::as_integer(): the integer, or TypeError for another type.
as_integer(v) == [thrown |-> v.kind # "integer", int |-> v.int]

\* tsj.write([](JsonValue& v) { v = JsonValue(v.as_integer() + 1); })
CounterWrite(t) ==
    /\ finished[t] < kIterations
    /\ lock_unique(t, "w_write")
    /\ UNCHANGED counterVars

\* tsj.update([](JsonValue v) { return JsonValue(v.as_integer() + 1); })
CounterUpdate(t) ==
    /\ finished[t] < kIterations
    /\ lock_unique(t, "w_update")
    /\ UNCHANGED counterVars

\* write: fn(value_) reads the stored value through the reference.
WriteRead(t) ==
    /\ tpc[t] = "w_write"
    /\ taken' = [taken EXCEPT ![t] = as_integer(value_)]
    /\ tpc' = [tpc EXCEPT ![t] = "w_computed"]
    /\ UNCHANGED <<value_, mutex_, tsRace, start, finished>>

\* update: fn(std::move(value_)) moves the stored value into the parameter
\* and reads it there.
UpdateMove(t) ==
    /\ tpc[t] = "w_update"
    /\ taken' = [taken EXCEPT ![t] = as_integer(value_)]
    /\ value_' = MovedFrom(value_)
    /\ tpc' = [tpc EXCEPT ![t] = "w_computed"]
    /\ UNCHANGED <<mutex_, tsRace, start, finished>>

\* The move assignment of the new JsonValue to value_; a TypeError thrown by
\* as_integer() leaves value_ as it is.
CounterStore(t) ==
    /\ tpc[t] = "w_computed"
    /\ value_' = IF taken[t].thrown THEN value_
                 ELSE IntegerValue(taken[t].int + 1)
    /\ tpc' = [tpc EXCEPT ![t] = "w_done"]
    /\ UNCHANGED <<mutex_, tsRace, counterVars>>

\* ~unique_lock at the end of write / update.
CounterUnlock(t) ==
    /\ unlock_unique(t)
    /\ finished' = [finished EXCEPT ![t] = @ + 1]
    /\ UNCHANGED <<start, taken>>

\* ThreadSafeJson tsj(JsonValue(int64_t(n))) and the threads about to start.
CounterStart ==
    /\ start \in CounterStarts
    /\ value_ = IntegerValue(start)
    /\ mutex_ = [readers |-> {}, writer |-> NoThread]
    /\ tpc = [t \in Threads |-> "idle"]
    /\ tsRace = FALSE
    /\ taken = [t \in Threads |-> [thrown |-> FALSE, int |-> 0]]
    /\ finished = [t \in Threads |-> 0]

CounterInit ==
    /\ CounterStart
    /\ IdleButFacadeCounter

CounterNext ==
    \/ (\E t \in Threads : CounterWrite(t)) /\ NotFacadeCounter
    \/ (\E t \in Threads : CounterUpdate(t)) /\ NotFacadeCounter
    \/ (\E t \in Threads : WriteRead(t)) /\ NotFacadeCounter
    \/ (\E t \in Threads : UpdateMove(t)) /\ NotFacadeCounter
    \/ (\E t \in Threads : CounterStore(t)) /\ NotFacadeCounter
    \/ (\E t \in Threads : CounterUnlock(t)) /\ NotFacadeCounter

SpecCounter == CounterInit /\ [][CounterNext]_vars

(***************************************************************************)
(* JsonWriter (compact output, indent_ = -1)                               *)
(***************************************************************************)
WriterMaxTokens == 5

\* The innermost open container's state, "empty" for an empty stack_.
Back(st) == IF st = <<>> THEN "empty" ELSE st[Len(st)]

\* stack_.back() = s
SetBack(st, s) == [st EXCEPT ![Len(st)] = s]

\* pre_value(): the comma before a further array element; ArrayStart becomes
\* ArrayValue; nothing is done, and nothing is refused, in the object states.
pre_value(st, buf) ==
    CASE Back(st) = "ArrayValue" -> [stack |-> st, buf |-> Append(buf, ",")]
      [] Back(st) = "ArrayStart" ->
            [stack |-> SetBack(st, "ArrayValue"), buf |-> buf]
      [] OTHER -> [stack |-> st, buf |-> buf]

\* post_value(): ObjectKey becomes ObjectValue, ArrayStart ArrayValue.
post_value(st) ==
    CASE Back(st) = "ObjectKey" -> SetBack(st, "ObjectValue")
      [] Back(st) = "ArrayStart" -> SetBack(st, "ArrayValue")
      [] OTHER -> st

\* The record of a call that returned / that threw TypeError.
Call(name, outcome) == [name |-> name, top |-> Back(stack_), ec |-> outcome]

\* pre_value(); write_raw(text); post_value();
WriteValue(name, text) ==
    /\ Len(sbuf_) < WriterMaxTokens
    /\ LET P == pre_value(stack_, sbuf_)
       IN  /\ sbuf_' = Append(P.buf, text)
           /\ stack_' = post_value(P.stack)
    /\ value_written_' = TRUE
    /\ called' = Call(name, "ok")
    /\ UNCHANGED wdepth_

null_value == WriteValue("null_value", "null")

bool_value == \E v \in BOOLEAN :
    WriteValue("bool_value", IF v THEN "true" ELSE "false")

int_value == WriteValue("int_value", "1")

uint_value == WriteValue("uint_value", "1")

\* std::to_chars(1.0) gives "1"; ".0" is appended.
float_value == WriteValue("float_value", "1.0")

string_value == WriteValue("string_value", "\"s\"")

raw_json == WriteValue("raw_json", "raw")

\* begin_object() / begin_array(): pre_value(), the bracket, a new state.
Begin(name, text, state) ==
    /\ Len(sbuf_) < WriterMaxTokens
    /\ LET P == pre_value(stack_, sbuf_)
       IN  /\ sbuf_' = Append(P.buf, text)
           /\ stack_' = Append(P.stack, state)
    /\ wdepth_' = wdepth_ + 1
    /\ called' = Call(name, "ok")
    /\ UNCHANGED value_written_

begin_object == Begin("begin_object", "{", "ObjectStart")

begin_array == Begin("begin_array", "[", "ArrayStart")

\* end_object() / end_array(): TypeError unless the innermost container is
\* of that kind and not waiting for a value.
End(name, text, states) ==
    /\ Len(sbuf_) < WriterMaxTokens
    /\ IF Back(stack_) \notin states
       THEN /\ called' = Call(name, "TypeError")
            /\ UNCHANGED <<stack_, wdepth_, value_written_, sbuf_>>
       ELSE /\ sbuf_' = Append(sbuf_, text)
            /\ stack_' = post_value(SubSeq(stack_, 1, Len(stack_) - 1))
            /\ wdepth_' = wdepth_ - 1
            /\ value_written_' = TRUE
            /\ called' = Call(name, "ok")

end_object == End("end_object", "}", {"ObjectStart", "ObjectValue"})

end_array == End("end_array", "]", {"ArrayStart", "ArrayValue"})

\* key(k)
key ==
    /\ Len(sbuf_) < WriterMaxTokens
    /\ IF Back(stack_) \notin {"ObjectStart", "ObjectValue"}
       THEN /\ called' = Call("key", "TypeError")
            /\ UNCHANGED <<stack_, wdepth_, value_written_, sbuf_>>
       ELSE /\ sbuf_' = (IF Back(stack_) = "ObjectValue"
                         THEN Append(sbuf_, ",") ELSE sbuf_)
                           \o <<"\"k\"", ":">>
            /\ stack_' = SetBack(stack_, "ObjectKey")
            /\ called' = Call("key", "ok")
            /\ UNCHANGED <<wdepth_, value_written_>>

\* is_complete()
is_complete == stack_ = <<>> /\ value_written_

\* JsonWriter(std::string& out)
WriterStart ==
    /\ stack_ = <<>>
    /\ wdepth_ = 0
    /\ value_written_ = FALSE
    /\ sbuf_ = <<>>
    /\ called = [name |-> "none", top |-> "empty", ec |-> "none"]

WriterInit == WriterStart /\ IdleButWriter

WriterNext ==
    \/ null_value /\ NotWriter
    \/ bool_value /\ NotWriter
    \/ int_value /\ NotWriter
    \/ uint_value /\ NotWriter
    \/ float_value /\ NotWriter
    \/ string_value /\ NotWriter
    \/ raw_json /\ NotWriter
    \/ begin_object /\ NotWriter
    \/ end_object /\ NotWriter
    \/ begin_array /\ NotWriter
    \/ end_array /\ NotWriter
    \/ key /\ NotWriter

SpecWriter == WriterInit /\ [][WriterNext]_vars

(***************************************************************************)
(* utf8::sequence_length, utf8::decode, utf8::validate                     *)
(***************************************************************************)
Utf8Len == 4

\* 'A', continuation bytes, two-, three- and four-byte leads (among them
\* the overlong C0, E0, F0 and the surrogate ED), the invalid lead F8.
Utf8Bytes == {65, 128, 189, 191, 192, 195, 224, 237, 239, 240, 244, 248}

kReplacement == 65533

\* sequence_length(lead)
sequence_length(lead) ==
    IF lead < 128 THEN 1
    ELSE IF lead \div 32 = 6 THEN 2
    ELSE IF lead \div 16 = 14 THEN 3
    ELSE IF lead \div 8 = 30 THEN 4
    ELSE 0

\* (byte & 0xC0) == 0x80
IsContinuation(byte) == byte \div 64 = 2

\* lead & 0x1F, lead & 0x0F, lead & 0x07
LeadBits(lead, len) ==
    CASE len = 2 -> lead % 32
      [] len = 3 -> lead % 16
      [] len = 4 -> lead % 8

\* cp = (cp << 6) | (byte & 0x3F) over bytes p+i .. p+len-1.
RECURSIVE Accumulate(_, _, _, _, _)
Accumulate(s, p, i, len, cp) ==
    IF i >= len THEN cp
    ELSE Accumulate(s, p, i + 1, len, (cp * 64) + (s[p + i] % 64))

\* Overlong encoding, surrogate, or beyond U+10FFFF.
Malformed(len, cp) ==
    \/ len = 2 /\ cp < 128
    \/ len = 3 /\ cp < 2048
    \/ len = 4 /\ cp < 65536
    \/ cp >= 55296 /\ cp <= 57343
    \/ cp > 1114111

\* The first i in 1..len-1 whose byte is not a continuation byte, else len.
RECURSIVE FirstBad(_, _, _, _)
FirstBad(s, p, i, len) ==
    IF i >= len \/ ~IsContinuation(s[p + i]) THEN i
    ELSE FirstBad(s, p, i + 1, len)

\* decode(ptr, end): the code point and the advanced ptr.
decode(s, p) ==
    LET lead == s[p]
        len == sequence_length(lead)
    IN  IF len = 0 \/ p + len > Len(s) + 1
        THEN [cp |-> kReplacement, ptr |-> p + 1]
        ELSE IF len = 1 THEN [cp |-> lead, ptr |-> p + 1]
        ELSE LET bad == FirstBad(s, p, 1, len)
                 cp == Accumulate(s, p, 1, len, LeadBits(lead, len))
             IN  IF bad < len THEN [cp |-> kReplacement, ptr |-> p + bad]
                 ELSE IF Malformed(len, cp)
                      THEN [cp |-> kReplacement, ptr |-> p + len]
                      ELSE [cp |-> cp, ptr |-> p + len]

\* validate(ptr, end)
RECURSIVE validate(_, _)
validate(s, p) ==
    IF p > Len(s) THEN TRUE
    ELSE LET lead == s[p]
             len == sequence_length(lead)
         IN  IF lead < 128 THEN validate(s, p + 1)
             ELSE IF len = 0 \/ p + len > Len(s) + 1 THEN FALSE
             ELSE IF FirstBad(s, p, 1, len) < len THEN FALSE
             ELSE IF Malformed(len,
                               Accumulate(s, p, 1, len, LeadBits(lead, len)))
                  THEN FALSE
                  ELSE validate(s, p + len)

\* Every byte sequence of up to n bytes.
RECURSIVE ByteStrings(_)
ByteStrings(n) ==
    IF n = 0 THEN {<<>>}
    ELSE LET S == ByteStrings(n - 1)
         IN  S \cup {Append(s, b) : s \in {x \in S : Len(x) = n - 1},
                                    b \in Utf8Bytes}

Utf8Start ==
    /\ ubytes \in ByteStrings(Utf8Len)
    /\ uvalid = <<>>
    /\ upos = 1
    /\ ucps = <<>>

\* bool ok = utf8::validate(s.data(), s.data() + s.size())
Validate ==
    /\ uvalid = <<>>
    /\ uvalid' = <<validate(ubytes, 1)>>
    /\ UNCHANGED <<ubytes, upos, ucps>>

\* One utf8::decode(ptr, end) of the loop while (ptr < end).
Decode ==
    /\ upos <= Len(ubytes)
    /\ LET d == decode(ubytes, upos)
       IN  /\ upos' = d.ptr
           /\ ucps' = Append(ucps, d.cp)
    /\ UNCHANGED <<ubytes, uvalid>>

Utf8Init == Utf8Start /\ IdleButUtf8

Utf8Next ==
    \/ Validate /\ NotUtf8
    \/ Decode /\ NotUtf8

SpecUtf8 == Utf8Init /\ [][Utf8Next]_vars

(***************************************************************************)
(* const JsonValue::operator[](key) on a JsonValue holding the Object      *)
(***************************************************************************)
NoCall ==
    [called |-> FALSE, key |-> 0, missing |-> FALSE, ec |-> "none",
     before |-> <<>>]

\* const operator[](std::string_view key): obj.find(key), OutOfRangeError
\* (errc::out_of_range) when it returns nullptr, else the entry found.
ConstSubscript(k) ==
    /\ ~ub
    /\ hasIndex' = EnsuredHas(entries, hasIndex)
    /\ indexMap' = EnsuredMap(entries, hasIndex, indexMap)
    /\ \E p \in FindPos(entries, hasIndex, indexMap, k) :
          indexed' = [called |-> TRUE, key |-> k,
                      missing |-> Positions(entries, k) = {},
                      ec |-> IF p = 0 THEN "out_of_range" ELSE "none",
                      before |-> entries]
    /\ UNCHANGED <<entries, cap, last, ub>>

LookupStart == ObjStart /\ indexed = NoCall

LookupInit == LookupStart /\ IdleButObjectLookup

\* Any other operation on the object: the const call is no longer the
\* last one.
Forgotten == indexed' = NoCall

LookupNext ==
    \/ (\E in \in InsertInputs(entries) : Insert(in[1], in[2]))
          /\ Forgotten /\ NotObjectLookup
    \/ (\E k \in OpKeys : Subscript(k)) /\ Forgotten /\ NotObjectLookup
    \/ (\E k \in OpKeys : Erase(k)) /\ Forgotten /\ NotObjectLookup
    \/ (\E k \in OpKeys : ConstSubscript(k)) /\ NotObjectLookup

SpecLookup == LookupInit /\ [][LookupNext]_vars

(***************************************************************************)
(* ArenaDocument: parse, try_parse, reset over Parser::parse / try_parse   *)
(***************************************************************************)
DocLen == 4
DocBytes == {"[", "]", ",", "1"}

\* JsonValue(): Type::Null.
NullNode == Node("Null", 0, <<>>, <<>>, <<>>)

\* No call since the caller began a new text.
NoDocCall ==
    [name |-> "none", input |-> <<>>, before |-> <<NullNode>>,
     res |-> [value |-> <<NullNode>>, ec |-> "ok"], ec |-> "ok"]

\* The caller appends a byte to the text of its next call.
DocText(b) ==
    /\ Len(dtext) < DocLen
    /\ dtext' = Append(dtext, b)
    /\ dcall' = NoDocCall
    /\ UNCHANGED <<root_, dopts>>

\* Parser::try_parse reporting every failure as the catch (...) branch does.
try_parse_any(t, o) ==
    Local(parse_document(t, o), LAMBDA P :
        IF P.code = "ok" THEN [value |-> P.val, ec |-> "ok"]
        ELSE [value |-> <<NullNode>>, ec |-> "unexpected_character"])

\* Parser::try_parse(input, opts): {parse(input, opts), {}} when parse
\* returns, {JsonValue{}, e.code()} when it throws ParseError.
try_parse_result(t, o) ==
    Local(parse_document(t, o), LAMBDA P :
        IF P.code = "ok" THEN [value |-> P.val, ec |-> "ok"]
        ELSE [value |-> <<NullNode>>, ec |-> P.code])

\* A try_parse that stores whatever value the result holds.
root_always(res, root) == res.value

\* if (res) root_ = std::move(res.value);
root_after(res, root) == IF res.ec = "ok" THEN res.value ELSE root

\* ArenaDocument::try_parse(input, opts)
DocTryParse ==
    LET res == try_parse_result(dtext, dopts)
    IN  /\ root_' = root_after(res, root_)
        /\ dcall' = [name |-> "try_parse", input |-> dtext,
                     before |-> root_, res |-> res, ec |-> res.ec]
        /\ dtext' = <<>>
        /\ UNCHANGED dopts

\* ArenaDocument::parse(input, opts): root_ is assigned when
\* Parser::parse returns; a ParseError leaves the function before that.
DocParse ==
    LET P == parse_document(dtext, dopts)
    IN  /\ root_' = IF P.code = "ok" THEN P.val ELSE root_
        /\ dcall' = [name |-> "parse", input |-> dtext, before |-> root_,
                     res |-> [value |-> P.val, ec |-> P.code],
                     ec |-> P.code]
        /\ dtext' = <<>>
        /\ UNCHANGED dopts

\* ArenaDocument::reset()
DocReset ==
    /\ root_' = <<NullNode>>
    /\ dcall' = [name |-> "reset", input |-> <<>>, before |-> root_,
                 res |-> [value |-> <<NullNode>>, ec |-> "ok"], ec |-> "ok"]
    /\ UNCHANGED <<dopts, dtext>>

\* ArenaDocument doc;
DocStart ==
    /\ root_ = <<NullNode>>
    /\ dopts \in {StrictOptions, LenientOptions}
    /\ dtext = <<>>
    /\ dcall = NoDocCall

DocInit == DocStart /\ IdleButDoc

DocNext ==
    \/ (\E b \in DocBytes : DocText(b)) /\ NotDoc
    \/ DocTryParse /\ NotDoc
    \/ DocParse /\ NotDoc
    \/ DocReset /\ NotDoc

SpecDoc == DocInit /\ [][DocNext]_vars

(***************************************************************************)
(* The Object's entries against the order of first insertion               *)
(***************************************************************************)
\* The keys as iteration over entries yields them.
IterationKeys(es) == [i \in 1..Len(es) |-> es[i].key]

\* A key written: a new key goes last, a present key stays where it is.
Written_(ord, k) ==
    IF \E i \in 1..Len(ord) : ord[i] = k THEN ord ELSE Append(ord, k)

\* A key erased: the others keep their order.
Erased_(ord, k) == SelectSeq(ord, LAMBDA x : x # k)

OrderStart == ObjStart /\ order = IterationKeys(entries)

OrderInit == OrderStart /\ IdleButObjectOrder

OrderNext ==
    \/ (\E in \in InsertInputs(entries) :
            Insert(in[1], in[2]) /\ order' = Written_(order, in[1]))
          /\ NotObjectOrder
    \/ (\E k \in OpKeys : Subscript(k) /\ order' = Written_(order, k))
          /\ NotObjectOrder
    \/ (\E k \in OpKeys : Erase(k) /\ order' = Erased_(order, k))
          /\ NotObjectOrder

SpecOrder == OrderInit /\ [][OrderNext]_vars

(***************************************************************************)
(* Object::operator==                                                      *)
(***************************************************************************)
NoCompare == [done |-> FALSE, same |-> FALSE, ab |-> FALSE, ba |-> FALSE]

\* An Object as one record: its entries, whether index_ exists, *index_.
ObjectOfEntries(es, has, m) == [es |-> es, has |-> has, m |-> m]

\* A second object built by insert() of the same entries in reverse order
\* (all keys distinct, fewer than kIndexThreshold + 1 of them: index_ stays
\* null), the value of its last entry replaced by v when v is not Absent.
Mirror(es, v) ==
    ObjectOfEntries(
        [i \in 1..Len(es) |->
            IF i = Len(es) /\ v # Absent
            THEN [key |-> es[1].key, val |-> v]
            ELSE es[Len(es) + 1 - i]],
        FALSE, EmptyMap)

\* Object::operator==(other): the sizes, then other.find(key) for every
\* entry; the answers a lookup through a stale index can give.
ObjectEquals(x, y) ==
    IF Len(x.es) # Len(y.es) THEN {FALSE}
    ELSE LET Outcomes(i) ==
                 {p # 0 /\ Deref(y.es, p) = x.es[i].val :
                      p \in FindPos(y.es, y.has, y.m, x.es[i].key)}
         IN  {r \in BOOLEAN :
                 \/ r /\ \A i \in 1..Len(x.es) : TRUE \in Outcomes(i)
                 \/ ~r /\ \E i \in 1..Len(x.es) : FALSE \in Outcomes(i)}

\* a == b and b == a for the Object b and a mirror a of it; find() on b
\* creates b's index when b is large and has none.
Compare(v) ==
    /\ ~ub
    /\ entries # <<>>
    /\ \A i, j \in 1..Len(entries) : entries[i].key = entries[j].key => i = j
    /\ LET a == Mirror(entries, v)
           b == ObjectOfEntries(entries, hasIndex, indexMap)
       IN  \E r1 \in ObjectEquals(a, b), r2 \in ObjectEquals(b, a) :
               compared' = [done |-> TRUE,
                            same |-> (v = Absent \/ v = entries[1].val),
                            ab |-> r1, ba |-> r2]
    /\ hasIndex' = EnsuredHas(entries, hasIndex)
    /\ indexMap' = EnsuredMap(entries, hasIndex, indexMap)
    /\ UNCHANGED <<entries, cap, last, ub>>

EqualStart == ObjStart /\ compared = NoCompare

EqualInit == EqualStart /\ IdleButObjectEqual

EqualNext ==
    \/ (\E in \in InsertInputs(entries) : Insert(in[1], in[2]))
          /\ compared' = NoCompare /\ NotObjectEqual
    \/ (\E k \in OpKeys : Erase(k)) /\ compared' = NoCompare /\ NotObjectEqual
    \/ (\E v \in (1..MaxVal) \cup {Absent} : Compare(v)) /\ NotObjectEqual

SpecEqual == EqualInit /\ [][EqualNext]_vars

(***************************************************************************)
(* ThreadSafeJson::update(fn) with callables that may throw                *)
(***************************************************************************)
ThrowMaxInt == 3
ThrowStarts == {0, 1}

\* The callables handed to update(): the parameter is a JsonValue (byValue)
\* or a JsonValue&&; the body throws, or returns
\* JsonValue(v.as_integer() + 1).
Callables == [byValue : BOOLEAN, throws : BOOLEAN]

\* tsj.update(fn): std::unique_lock lock(mutex_).
ThrowUpdate(t, c) ==
    /\ c.throws \/ value_.int < ThrowMaxInt
    /\ lock_unique(t, "w_update")
    /\ pre' = value_
    /\ callee' = [callee EXCEPT ![t] = c]
    /\ UNCHANGED lastThrew

\* fn(std::move(value_)): a JsonValue parameter is move-constructed from
\* value_, a JsonValue&& parameter binds to it.
ThrowBind(t) ==
    /\ tpc[t] = "w_update"
    /\ value_' = IF callee[t].byValue THEN MovedFrom(value_) ELSE value_
    /\ tpc' = [tpc EXCEPT ![t] = "w_bound"]
    /\ UNCHANGED <<mutex_, tsRace, throwVars>>

\* The body of fn over its parameter, which holds what value_ held at the
\* call, and the move assignment of its result to value_.
ThrowBody(t) ==
    /\ tpc[t] = "w_bound"
    /\ IF callee[t].throws \/ as_integer(pre).thrown
       THEN /\ tpc' = [tpc EXCEPT ![t] = "w_thrown"]
            /\ UNCHANGED value_
       ELSE /\ tpc' = [tpc EXCEPT ![t] = "w_done"]
            /\ value_' = IntegerValue(as_integer(pre).int + 1)
    /\ UNCHANGED <<mutex_, tsRace, throwVars>>

\* ~unique_lock while the exception leaves update().
ThrowUnwind(t) ==
    /\ tpc[t] = "w_thrown"
    /\ mutex_' = [mutex_ EXCEPT !.writer = NoThread]
    /\ tpc' = [tpc EXCEPT ![t] = "idle"]
    /\ lastThrew' = TRUE
    /\ UNCHANGED <<value_, tsRace, pre, callee>>

\* ~unique_lock at the end of update().
ThrowReturn(t) ==
    /\ unlock_unique(t)
    /\ lastThrew' = FALSE
    /\ UNCHANGED <<pre, callee>>

\* read(fn): std::shared_lock lock(mutex_) and the call of fn(value_).
ThrowRead(t) ==
    /\ lock_shared(t, "r_done")
    /\ UNCHANGED throwVars

\* ~shared_lock at the end of read().
ThrowReadDone(t) ==
    /\ unlock_shared(t)
    /\ UNCHANGED throwVars

\* ThreadSafeJson tsj(JsonValue(int64_t(n))).
ThrowStart ==
    /\ value_ \in {IntegerValue(n) : n \in ThrowStarts}
    /\ mutex_ = [readers |-> {}, writer |-> NoThread]
    /\ tpc = [t \in Threads |-> "idle"]
    /\ tsRace = FALSE
    /\ pre = value_
    /\ lastThrew = FALSE
    /\ callee = [t \in Threads |-> [byValue |-> FALSE, throws |-> FALSE]]

ThrowInit ==
    /\ ThrowStart
    /\ IdleButFacadeThrow

ThrowNext ==
    \/ (\E t \in Threads, c \in Callables : ThrowUpdate(t, c)) /\ NotFacadeThrow
    \/ (\E t \in Threads : ThrowBind(t)) /\ NotFacadeThrow
    \/ (\E t \in Threads : ThrowBody(t)) /\ NotFacadeThrow
    \/ (\E t \in Threads : ThrowUnwind(t)) /\ NotFacadeThrow
    \/ (\E t \in Threads : ThrowReturn(t)) /\ NotFacadeThrow
    \/ (\E t \in Threads : ThrowRead(t)) /\ NotFacadeThrow
    \/ (\E t \in Threads : ThrowReadDone(t)) /\ NotFacadeThrow

SpecThrow == ThrowInit /\ [][ThrowNext]_vars

(***************************************************************************)
(* One workload repeated on an arena over an external buffer               *)
(***************************************************************************)
Workloads ==
    UNION {[1..n -> AllocSizes] : n \in 1..ArenaMaxAllocs}

\* The capacities of the blocks that A holds beyond the first n, oldest
\* first (blocks_ lists the newest first).
NewBlocks(A, n) ==
    [i \in 1..(Len(A.blocks) - n) |-> A.blocks[Len(A.blocks) - n + 1 - i]]

\* arena.allocate(size, 8): the next allocation of the workload.
CycleAllocate ==
    /\ cycleAllocs < Len(workload)
    /\ LET A == allocate(ArenaFields, workload[cycleAllocs + 1], 8)
       IN  /\ SetArena(A)
           /\ grownNow' = grownNow \o NewBlocks(A, Len(blocks_))
           /\ peakNow' = IF A.total > peakNow THEN A.total ELSE peakNow
    /\ cycleAllocs' = cycleAllocs + 1
    /\ UNCHANGED <<initial_buf_, initial_size_, afterReset, workload, grownBy>>

\* arena.reset() once the workload has run.
CycleReset ==
    /\ cycleAllocs = Len(workload)
    /\ Len(grownBy) < ArenaMaxCycles
    /\ LET R == reset(ArenaFields, initial_buf_, initial_size_)
       IN  /\ SetArena(R)
           /\ afterReset' = Append(afterReset, R.total)
           /\ peakNow' = R.total
    /\ grownBy' = Append(grownBy, [blocks |-> grownNow, peak |-> peakNow])
    /\ grownNow' = <<>>
    /\ cycleAllocs' = 0
    /\ UNCHANGED <<initial_buf_, initial_size_, workload>>

\* MonotonicArena arena(buf, buf_size) and the workload of every cycle.
CycleStart ==
    /\ \E n \in BufSizes :
          /\ initial_buf_ = TRUE
          /\ initial_size_ = n
          /\ Constructed(ExternalArena(n))
    /\ cycleAllocs = 0
    /\ afterReset = <<>>
    /\ workload \in Workloads
    /\ grownNow = <<>>
    /\ grownBy = <<>>
    /\ peakNow = total_allocated_

CycleInit == CycleStart /\ IdleButArenaCycle

CycleNext ==
    \/ CycleAllocate /\ NotArenaCycle
    \/ CycleReset /\ NotArenaCycle

SpecCycle == CycleInit /\ [][CycleNext]_vars

(***************************************************************************)
(* ThreadSafeJson::operator=(ThreadSafeJson&&) between two objects         *)
(***************************************************************************)
MoveOps == 1
Movers == {1, 2, 3}
Facades == {"a", "b"}
FreeMutex == [readers |-> {}, writer |-> NoThread]
NoMove == [dst |-> "a", src |-> "a"]

IsFree(m) == m.writer = NoThread /\ m.readers = {}

\* lk1.lock(); lk2.lock(): the two mutexes taken one after the other.
lock_in_order(t, m1, m2) ==
    \/ /\ mpc[t] = "m_wait"
       /\ IsFree(mheld[m1])
       /\ mheld' = [mheld EXCEPT ![m1].writer = t]
       /\ mpc' = [mpc EXCEPT ![t] = "m_half"]
    \/ /\ mpc[t] = "m_half"
       /\ IsFree(mheld[m2])
       /\ mheld' = [mheld EXCEPT ![m2].writer = t]
       /\ mpc' = [mpc EXCEPT ![t] = "m_locked"]

\* std::lock(lk1, lk2): returns holding both mutexes and holds neither
\* while it waits for one of them.
std_lock(t, m1, m2) ==
    /\ mpc[t] = "m_wait"
    /\ IsFree(mheld[m1])
    /\ IsFree(mheld[m2])
    /\ mheld' = [mheld EXCEPT ![m1].writer = t, ![m2].writer = t]
    /\ mpc' = [mpc EXCEPT ![t] = "m_locked"]

\* Another thread is inside src = std::move(dst).
Opposite(t, dst, src) ==
    \E u \in Movers \ {t} :
        /\ mpc[u] \in {"m_wait", "m_half", "m_locked"}
        /\ mop[u] = [dst |-> src, src |-> dst]

\* dst = std::move(src) is called; this == &other returns at once.
MoveCall(t, dst, src) ==
    /\ mpc[t] = "idle"
    /\ mleft[t] > 0
    /\ IF dst = src
       THEN /\ mleft' = [mleft EXCEPT ![t] = @ - 1]
            /\ UNCHANGED <<mpc, mop, crossed>>
       ELSE /\ mpc' = [mpc EXCEPT ![t] = "m_wait"]
            /\ mop' = [mop EXCEPT ![t] = [dst |-> dst, src |-> src]]
            /\ crossed' = (crossed \/ Opposite(t, dst, src))
            /\ UNCHANGED mleft
    /\ UNCHANGED <<mvalue, mheld>>

\* std::lock(lk1, lk2) over mutex_ and other.mutex_.
MoveLock(t) ==
    /\ std_lock(t, mop[t].dst, mop[t].src)
    /\ UNCHANGED <<mvalue, mop, mleft, crossed>>

\* value_ = std::move(other.value_), then ~lk2 and ~lk1.
MoveValue(t) ==
    /\ mpc[t] = "m_locked"
    /\ mvalue' = [mvalue EXCEPT ![mop[t].dst] = mvalue[mop[t].src],
                                ![mop[t].src] = MovedFrom(mvalue[mop[t].src])]
    /\ mheld' = [mheld EXCEPT ![mop[t].dst].writer = NoThread,
                              ![mop[t].src].writer = NoThread]
    /\ mpc' = [mpc EXCEPT ![t] = "idle"]
    /\ mleft' = [mleft EXCEPT ![t] = @ - 1]
    /\ mop' = [mop EXCEPT ![t] = NoMove]
    /\ UNCHANGED crossed

\* o.read(fn) or o.write(fn) is called.
OtherCall(t, o, pos) ==
    /\ mpc[t] = "idle"
    /\ mleft[t] > 0
    /\ mpc' = [mpc EXCEPT ![t] = pos]
    /\ mop' = [mop EXCEPT ![t] = [dst |-> o, src |-> o]]
    /\ UNCHANGED <<mvalue, mheld, mleft, crossed>>

\* read: std::shared_lock lock(mutex_).
MoveReadLock(t) ==
    /\ mpc[t] = "r_wait"
    /\ mheld[mop[t].dst].writer = NoThread
    /\ mheld' = [mheld EXCEPT ![mop[t].dst].readers = @ \cup {t}]
    /\ mpc' = [mpc EXCEPT ![t] = "r_in"]
    /\ UNCHANGED <<mvalue, mop, mleft, crossed>>

\* read: fn(value_) returns, ~shared_lock.
MoveReadDone(t) ==
    /\ mpc[t] = "r_in"
    /\ mheld' = [mheld EXCEPT ![mop[t].dst].readers = @ \ {t}]
    /\ mpc' = [mpc EXCEPT ![t] = "idle"]
    /\ mleft' = [mleft EXCEPT ![t] = @ - 1]
    /\ mop' = [mop EXCEPT ![t] = NoMove]
    /\ UNCHANGED <<mvalue, crossed>>

\* write: std::unique_lock lock(mutex_).
MoveWriteLock(t) ==
    /\ mpc[t] = "w_wait"
    /\ IsFree(mheld[mop[t].dst])
    /\ mheld' = [mheld EXCEPT ![mop[t].dst].writer = t]
    /\ mpc' = [mpc EXCEPT ![t] = "w_in"]
    /\ UNCHANGED <<mvalue, mop, mleft, crossed>>

\* write: fn(value_) stores JsonValue(3) and returns, ~unique_lock.
MoveWriteDone(t) ==
    /\ mpc[t] = "w_in"
    /\ mvalue' = [mvalue EXCEPT ![mop[t].dst] = IntegerValue(3)]
    /\ mheld' = [mheld EXCEPT ![mop[t].dst].writer = NoThread]
    /\ mpc' = [mpc EXCEPT ![t] = "idle"]
    /\ mleft' = [mleft EXCEPT ![t] = @ - 1]
    /\ mop' = [mop EXCEPT ![t] = NoMove]
    /\ UNCHANGED crossed

\* ThreadSafeJson a(JsonValue(1)); ThreadSafeJson b(JsonValue(2)).
MoveStart ==
    /\ mvalue = [o \in Facades |-> IntegerValue(IF o = "a" THEN 1 ELSE 2)]
    /\ mheld = [o \in Facades |-> FreeMutex]
    /\ mpc = [t \in Movers |-> "idle"]
    /\ mop = [t \in Movers |-> NoMove]
    /\ mleft = [t \in Movers |-> MoveOps]
    /\ crossed = FALSE

MoveInit == MoveStart /\ IdleButMove

MoveNext ==
    \/ (\E t \in Movers, dst, src \in Facades : MoveCall(t, dst, src)) /\ NotMove
    \/ (\E t \in Movers : MoveLock(t)) /\ NotMove
    \/ (\E t \in Movers : MoveValue(t)) /\ NotMove
    \/ (\E t \in Movers, o \in Facades, pos \in {"r_wait", "w_wait"} : OtherCall(t, o, pos)) /\ NotMove
    \/ (\E t \in Movers : MoveReadLock(t)) /\ NotMove
    \/ (\E t \in Movers : MoveReadDone(t)) /\ NotMove
    \/ (\E t \in Movers : MoveWriteLock(t)) /\ NotMove
    \/ (\E t \in Movers : MoveWriteDone(t)) /\ NotMove

SpecMove == MoveInit /\ [][MoveNext]_vars

\* Some thread that can run does run.
SpecMoveFair == SpecMove /\ WF_vars(MoveNext)

(***************************************************************************)
(* StringOutput and StreamOutput                                           *)
(***************************************************************************)
OutMaxWrites == 5

\* StringOutput::kBufSize and StreamOutput::kBufSize.
kStringBufSize == 4096
kStreamBufSize == 8192

kBufSize(s) == IF s = "string" THEN kStringBufSize ELSE kStreamBufSize

\* The sizes of the multi-byte writes: none, few, and around the buffer.
WriteSizes(s) == {0, 2, kBufSize(s) - 1, kBufSize(s), kBufSize(s) + 1, 3 * kBufSize(s)}

\* A sink's fields as one record.
OutFields == [buf |-> buf_, pos |-> pos_, out |-> delivered]

\* A flush() that hands the buffer over but does not empty it.
flush_keeping(S) ==
    IF S.pos > 0 THEN [S EXCEPT !.out = S.out \o S.buf] ELSE S

\* flush(): result_.append(buf_, pos_) / os_.write(buf_, pos_); pos_ = 0.
flush(S) ==
    IF S.pos > 0 THEN [buf |-> <<>>, pos |-> 0, out |-> S.out \o S.buf] ELSE S

\* write_slow(s, n): flush, then a large write goes straight to the
\* destination and a small one to the start of the buffer.
write_slow(S, r, k) ==
    LET F == flush(S)
    IN  IF r.n >= k THEN [F EXCEPT !.out = Append(F.out, r)]
        ELSE [F EXCEPT !.buf = <<r>>, !.pos = r.n]

\* write(const char* s, size_t n)
write(S, r, k) ==
    IF S.pos + r.n <= k
    THEN [S EXCEPT !.buf = Append(S.buf, r), !.pos = S.pos + r.n]
    ELSE write_slow(S, r, k)

\* write(char c)
write_char(S, r, k) ==
    LET F == IF S.pos >= k THEN flush(S) ELSE S
    IN  [F EXCEPT !.buf = Append(F.buf, r), !.pos = F.pos + 1]

SetOut(S) ==
    /\ buf_' = S.buf
    /\ pos_' = S.pos
    /\ delivered' = S.out

\* out.write(c)
OutWriteChar ==
    /\ Len(written) < OutMaxWrites
    /\ LET r == [id |-> Len(written) + 1, n |-> 1]
       IN  /\ SetOut(write_char(OutFields, r, kBufSize(sink)))
           /\ written' = Append(written, r)
    /\ olast' = "write"
    /\ UNCHANGED sink

\* out.write(s, n)
OutWrite(n) ==
    /\ Len(written) < OutMaxWrites
    /\ LET r == [id |-> Len(written) + 1, n |-> n]
       IN  /\ SetOut(write(OutFields, r, kBufSize(sink)))
           /\ written' = Append(written, r)
    /\ olast' = "write"
    /\ UNCHANGED sink

\* StringOutput::result() and the destructors: flush().
OutFlush ==
    /\ olast # "flush"
    /\ SetOut(flush(OutFields))
    /\ olast' = "flush"
    /\ UNCHANGED <<sink, written>>

\* StringOutput out; / StreamOutput out(os);
OutStart ==
    /\ sink \in {"string", "stream"}
    /\ buf_ = <<>>
    /\ pos_ = 0
    /\ delivered = <<>>
    /\ written = <<>>
    /\ olast = "none"

OutInit == OutStart /\ IdleButOut

OutNext ==
    \/ OutWriteChar /\ NotOut
    \/ (\E n \in WriteSizes(sink) : OutWrite(n)) /\ NotOut
    \/ OutFlush /\ NotOut

SpecOut == OutInit /\ [][OutNext]_vars

---------------------------------------------------------------------------
(* Claims about Object *)

\* C1: after any sequence of insert, operator[] and erase, find(k) returns
\* the entry holding the value last written for k when k is present and
\* null when k was never inserted or was erased after its last write.
C1_FindReturnsLastWritten ==
    \A k \in Keys : FindResults(entries, hasIndex, indexMap, k) = {last[k]}

\* C5: whenever the hash index exists, every key view stored in it points to
\* the key bytes of a live entry and maps that key to the entry's position.
C5_IndexViewsValid ==
    hasIndex =>
        \A r \in indexMap :
            /\ ViewReads(entries, r, r.hkey)
            /\ r.idx \in Positions(entries, r.hkey)

\* C6: after any sequence of insert, operator[] and erase the object holds
\* at most one entry per key.
C6_OneEntryPerKey ==
    \A i, j \in 1..Len(entries) : entries[i].key = entries[j].key => i = j

---------------------------------------------------------------------------
(* Claims about the parser *)

\* C2: with allow_duplicate_keys = true, parsing an object text that repeats
\* keys yields exactly one entry per distinct key, holding the value of the
\* key's last occurrence, and size() equal to the number of distinct keys.
C2_LastOccurrenceWins ==
    (pstate = "done" /\ dupAllowed) =>
        /\ ~pub
        /\ KeysOf(pentries) = {ptext[i] : i \in 1..Len(ptext)}
        /\ Len(pentries) = Cardinality({ptext[i] : i \in 1..Len(ptext)})
        /\ \A i \in 1..Len(pentries) :
              /\ ptext[pentries[i].val] = pentries[i].key
              /\ \A j \in 1..Len(ptext) :
                    ptext[j] = pentries[i].key => j <= pentries[i].val

\* C7: with allow_duplicate_keys = false, parsing fails with DuplicateKey if
\* and only if the object text contains the same key twice.
C7_DuplicateKeyIff ==
    ~dupAllowed =>
        /\ pstate = "dup_error" => HasRepeat(ptext)
        /\ pstate \in {"parsing", "done"} => ~HasRepeat(ptext)


---------------------------------------------------------------------------
(* Claims about ThreadSafeJson *)

\* C3: while threads run read-side operations of one ThreadSafeJson
\* concurrently, no read-side operation modifies state that another
\* concurrent reader accesses: no reader is writing the stored object's
\* index while another reader reads or writes it.
C3_ReadersModifyNothing ==
    \A t, u \in DOMAIN tpc :
        (t # u /\ t \in mutex_.readers /\ u \in mutex_.readers
             /\ tpc[t] = "r_fill")
            => tpc[u] \notin {"r_build", "r_fill", "r_lookup"}

\* C4: at every moment the operations accessing the stored value are none,
\* or read-side operations only, or exactly one write-side operation: a
\* write-side operation overlaps no other operation on the same object.
C4_ReadersOrOneWriter ==
    \A t, u \in DOMAIN tpc :
        (t # u /\ tpc[t] \in WriterInside) => tpc[u] = "idle"

\* C4 witness: two read-side operations are inside the stored value at the
\* same time, on an object whose index an earlier operation built.
C4_Witness ==
    \E t, u \in DOMAIN tpc :
        /\ t # u
        /\ tpc[t] = "r_lookup"
        /\ tpc[u] = "r_plain"
        /\ value_.index = "built"


---------------------------------------------------------------------------
(* Claims about copies of arena-backed values *)

\* C8: a copy of an arena-flagged value made while no arena is active has
\* none of its storage in the arena, and read back after the arena was
\* reset or destroyed it equals the original content.
C8_CopyOutsideArenaIsIndependent ==
    (ccopy # NoValue /\ coutside) =>
        /\ ~InArena(ccopy)
        /\ cread \in {"none", "equal"}


---------------------------------------------------------------------------
(* Claims about MonotonicArena *)

\* C9: for an arena over an external buffer and for a heap-only arena,
\* bytes_allocated() observed after reset() is the same after every
\* parse/reset cycle over inputs of bounded size.
C9_SameBytesAfterEveryReset ==
    \A i, j \in DOMAIN afterReset : afterReset[i] = afterReset[j]


---------------------------------------------------------------------------
(* Claims about ArenaScope *)

\* C10: on each thread the active-arena pointer equals the arena of the
\* innermost live ArenaScope, or null when none is live, and the pointer
\* every live scope will restore is the arena of the scope enclosing it
\* (null for the outermost), however the scopes inside it were left.
C10_ActiveArenaIsInnermostScope ==
    \A t \in DOMAIN current_arena :
        /\ current_arena[t] = IF scopes[t] = <<>> THEN NullArena
                              ELSE Innermost(scopes[t]).arena
        /\ \A i \in DOMAIN scopes[t] :
              scopes[t][i].prev_ = IF i = 1 THEN NullArena
                                   ELSE scopes[t][i - 1].arena

\* C10 witness: parse(input, arena, options) threw ParseError inside a live
\* scope of another arena, and that arena is active again, while the other
\* thread has a scope of its own.
C10_Witness ==
    \E t, u \in DOMAIN current_arena :
        /\ t # u
        /\ lastExit[t].how = "parse_error"
        /\ scopes[t] # <<>>
        /\ current_arena[t] = Innermost(scopes[t]).arena
        /\ current_arena[t] # lastExit[t].arena
        /\ scopes[u] # <<>>
        /\ current_arena[u] # current_arena[t]

---------------------------------------------------------------------------
(* Claims about the parser over a text *)

RECURSIVE Scan(_, _)
\* The containers open after the first i bytes of t, counted on the text
\* alone: openers and closers outside string literals.
Scan(t, i) ==
    IF i = 0 THEN [open |-> 0, str |-> FALSE]
    ELSE LET s == Scan(t, i - 1)
             b == t[i]
         IN  IF s.str THEN [s EXCEPT !.str = (b # "q")]
             ELSE IF b = "q" THEN [s EXCEPT !.str = TRUE]
             ELSE IF b \in {"[", "{"} THEN [s EXCEPT !.open = @ + 1]
             ELSE IF b \in {"]", "}"} THEN [s EXCEPT !.open = @ - 1]
             ELSE s

\* The openers of t that bring the number of open containers to n + 1.
TooDeep(t, n) ==
    {i \in 1..Len(t) : /\ t[i] \in {"[", "{"}
                       /\ ~Scan(t, i - 1).str
                       /\ Scan(t, i).open = n + 1}

FirstOf(S) == CHOOSE i \in S : \A j \in S : i <= j

\* C11: with max_depth = N > 0 a text is accepted only if it never has more
\* than N containers open, the depth counter being back at zero after the
\* matching closers; MaxDepthExceeded is thrown at the first opener that
\* would make the depth N + 1 and nowhere else, so containers that stay
\* within depth N, siblings included, never cause it.
C11_DepthLimit ==
    LET N == max_depth_(opts)
        K == TooDeep(input, N)
    IN  parsed.code # "none" =>
          /\ parsed.code = "ok" =>
                 K = {} /\ parsed.depth = 0
                        /\ Scan(input, Len(input)).open = 0
          /\ parsed.code = "max_depth_exceeded" =>
                 K # {} /\ parsed.pos = FirstOf(K) + 1
          /\ K # {} =>
                 \/ parsed.code = "max_depth_exceeded"
                 \/ parsed.code # "ok" /\ parsed.pos <= FirstOf(K)

\* C11 witness: with max_depth = 2 the parse of [{},[[ has taken the sibling
\* {} at depth 2, opened the sibling [ at depth 2 and thrown MaxDepthExceeded
\* at the opener after it.
C11_WitnessThirdLevelRefused ==
    /\ opts # <<>>
    /\ opts.max_depth = 2
    /\ input = <<"[", "{", "}", ",", "[", "[">>
    /\ parsed.code = "max_depth_exceeded"
    /\ parsed.pos = 7

\* C12: in strict mode only space, tab, LF and CR are skipped around
\* tokens, so a text with any other byte of 0x20 or below outside a string
\* is rejected (the texts here have no strings).
C12_OnlyJsonWhitespaceSkipped ==
    parsed.code = "ok" => \A i \in 1..Len(input) : input[i] # "ctl"

\* C13: a string literal holding an unescaped control byte is accepted only
\* when allow_control_chars is on.  An accepted text that starts with a
\* quote is one string literal, so a control byte between its first and
\* last byte lies inside the literal.
C13_ControlCharsNeedTheOption ==
    (/\ parsed.code = "ok"
     /\ input[1] = "q"
     /\ \E i \in 2..(Len(input) - 1) : input[i] = "ctl")
    => opts.allow_control_chars

RECURSIVE OnlyGap(_, _, _)
\* From byte i on, t holds only whitespace and, with comments enabled (c),
\* comments, read off the text alone; a block comment that is never closed
\* is taken as a comment running to the end.
OnlyGap(t, i, c) ==
    LET nls == {j \in (i + 2)..Len(t) : t[j] = "nl"}
        ends == {j \in (i + 2)..(Len(t) - 1) : t[j] = "*" /\ t[j + 1] = "/"}
    IN  IF i > Len(t) THEN TRUE
        ELSE IF t[i] \in Whitespace THEN OnlyGap(t, i + 1, c)
        ELSE IF c /\ i + 1 <= Len(t) /\ t[i] = "/" /\ t[i + 1] = "/"
        THEN nls = {} \/ OnlyGap(t, FirstOf(nls) + 1, c)
        ELSE IF c /\ i + 1 <= Len(t) /\ t[i] = "/" /\ t[i + 1] = "*"
        THEN ends = {} \/ OnlyGap(t, FirstOf(ends) + 2, c)
        ELSE FALSE

\* The first byte after the leading run of digits of t.
AfterDigits(t) ==
    FirstOf({i \in 2..(Len(t) + 1) : i = Len(t) + 1 \/ t[i] # "1"})

\* C17: when anything other than whitespace and (if enabled) comments
\* follows the root value, here the number the text starts with, parse fails
\* with TrailingContent and try_parse returns that code.
C17_TrailingContentRejected ==
    (/\ parsed.code # "none"
     /\ input[1] = "1"
     /\ ~OnlyGap(input, AfterDigits(input), opts.allow_comments))
    => /\ parsed.code = "trailing_content"
       /\ ec \in {"none", "trailing_content"}

---------------------------------------------------------------------------
(* Claims about serialize and parse together *)

\* C14: for every value built through the API, of any variant, size and
\* nesting depth, serialize succeeds and parsing its text with the default
\* options returns a value equal to it.
C14_RoundTrip ==
    rback.code # "none" => rback.code = "ok" /\ ValueEqual(rback.val, rvalue)

(***************************************************************************)
(* Claims about the facade used as a counter                               *)
(***************************************************************************)
RECURSIVE Completed_(_)
Completed_(n) == IF n = 0 THEN 0 ELSE finished[n] + Completed_(n - 1)

\* C15: write(fn) and update(fn) are atomic read-modify-write operations:
\* whenever no thread is inside one, the stored integer is the initial value
\* plus the number of increments completed, so NumThreads threads doing
\* kIterations increments each end at initial + NumThreads * kIterations.
C15_NoIncrementLost ==
    /\ (\A t \in Threads : tpc[t] = "idle")
          => value_ = IntegerValue(start + Completed_(NumThreads))
    /\ (\A t \in Threads : finished[t] = kIterations)
          => value_ = IntegerValue(start + NumThreads * kIterations)

C15_WitnessAllThreadsFinished ==
    /\ \A t \in Threads : finished[t] = kIterations /\ tpc[t] = "idle"
    /\ start = 10
    /\ value_ = IntegerValue(10 + NumThreads * kIterations)

(***************************************************************************)
(* Claims about MonotonicArena::reset                                      *)
(***************************************************************************)
\* reset() was the last call on the arena.
JustReset == afterReset # <<>> /\ cycleAllocs = 0

\* The allocation is served and lies inside the arena's current block.
Served(A, size, align) ==
    LET R == allocate(A, size, align)
    IN  R.ptr <= R.end /\ R.ptr >= size

ValueCalls ==
    {"null_value", "bool_value", "int_value", "uint_value", "float_value",
     "string_value", "raw_json", "begin_object", "begin_array"}

\* C18: objects alternate key and value: a value call (a scalar, raw_json,
\* begin_object, begin_array) made while the innermost open container is an
\* object with no pending key, a key() right after a key(), and an
\* end_object() right after a key() are each rejected with TypeError.
C18_KeyValueAlternation ==
    /\ called.name \in ValueCalls /\ called.top \in {"ObjectStart", "ObjectValue"}
          => called.ec = "TypeError"
    /\ called.name \in {"key", "end_object"} /\ called.top = "ObjectKey"
          => called.ec = "TypeError"

(***************************************************************************)
(* Claims about utf8::validate and utf8::decode                            *)
(***************************************************************************)
\* C19: for every byte sequence, validate returns true exactly when the
\* successive decode calls from the first byte to the end never return
\* U+FFFD.
C19_ValidIffNoReplacement ==
    uvalid # <<>> /\ upos > Len(ubytes)
        => (uvalid[1] <=> \A i \in 1..Len(ucps) : ucps[i] # kReplacement)

(***************************************************************************)
(* Claims about const key indexing                                         *)
(***************************************************************************)
\* C20: const operator[] with a key the object lacks fails with the
\* KeyNotFound error kind and creates no entry: the object's entries are
\* what they were before the call.
C20_MissingKeyIsKeyNotFound ==
    indexed.called /\ indexed.missing
        => indexed.ec = "key_not_found" /\ entries = indexed.before

(***************************************************************************)
(* Claims about ArenaDocument and Parser::try_parse                        *)
(***************************************************************************)
\* C21: ArenaDocument::try_parse on input that fails to parse returns a
\* non-zero error code and leaves root() as it was before the call; on
\* input that parses, root() becomes the parsed value.
C21_TryParseKeepsRootOnFailure ==
    dcall.name = "try_parse" =>
        IF parse_document(dcall.input, dopts).code # "ok"
        THEN dcall.ec # "ok" /\ root_ = dcall.before
        ELSE dcall.ec = "ok"
               /\ root_ = parse_document(dcall.input, dopts).val

\* A document holding [1] has been given the unterminated text [1, .
C21_WitnessFailedAfterSuccess ==
    /\ dcall.name = "try_parse"
    /\ dcall.input = <<"[", "1", ",">>
    /\ dcall.ec # "ok"
    /\ dcall.before = ArrayOf(<<(<<IntegerNode(1)>>)>>)
    /\ root_ = dcall.before

C23_IterationIsInsertionOrder == IterationKeys(entries) = order

\* C24: object equality is structural and order-insensitive: for objects a
\* and b built by insert and erase, a == b holds exactly when both hold the
\* same keys with equal values, whatever the entry orders, and b == a gives
\* the same answer.
C24_EqualityIsStructural ==
    compared.done =>
        /\ compared.ab = compared.same
        /\ compared.ba = compared.ab

---------------------------------------------------------------------------
(* Claims about ThreadSafeJson::update with a throwing callable            *)
---------------------------------------------------------------------------

\* C25: when the callable passed to update() throws, the exclusive lock is
\* released and the stored value is what it was before the call: a reader
\* inside read() after such an update sees the pre-call value.
C25_ThrowingUpdateKeepsValue ==
    \A t \in Threads :
        (tpc[t] = "r_done" /\ lastThrew) =>
            /\ mutex_.writer = NoThread
            /\ value_ = pre

---------------------------------------------------------------------------
(* Claims about a workload repeated on one arena                           *)
---------------------------------------------------------------------------

\* C26: on an arena over an external buffer, every cycle of the same
\* overflowing workload requests overflow blocks of the same sizes and
\* reaches the same peak bytes_allocated().
C26_SameOverflowEveryCycle ==
    \A i, j \in DOMAIN grownBy : grownBy[i] = grownBy[j]

---------------------------------------------------------------------------
(* Claims about the move assignment of ThreadSafeJson                      *)
---------------------------------------------------------------------------

\* Every thread has made all its calls and is inside none.
AllReturned == \A t \in Movers : mpc[t] = "idle" /\ mleft[t] = 0

\* C27: threads that move-assign a and b in opposite directions, alongside
\* reads and writes of a and b, all complete their calls: the acquisition
\* of the two mutexes never deadlocks.
C27_MovesComplete == <>[]AllReturned

\* a = std::move(b) and b = std::move(a) were in progress together and
\* every thread has returned from all its calls.
C27_WitnessCrossedMoves == crossed /\ AllReturned

---------------------------------------------------------------------------
(* Claims about JsonWriter::is_complete                                    *)
---------------------------------------------------------------------------
ScalarTokens == {"null", "true", "false", "1", "1.0", "\"s\"", "raw"}

RECURSIVE ValueEnd(_, _), ElementsEnd(_, _), MembersEnd(_, _)

\* The position after the JSON value that starts at token i of b; 0 when no
\* value starts there.
ValueEnd(b, i) ==
    IF i > Len(b) THEN 0
    ELSE IF b[i] \in ScalarTokens THEN i + 1
    ELSE IF b[i] = "["
         THEN IF i < Len(b) /\ b[i + 1] = "]" THEN i + 2
              ELSE ElementsEnd(b, i + 1)
    ELSE IF b[i] = "{"
         THEN IF i < Len(b) /\ b[i + 1] = "}" THEN i + 2
              ELSE MembersEnd(b, i + 1)
    ELSE 0

\* The position after the "]" that closes the elements starting at i.
ElementsEnd(b, i) ==
    LET e == ValueEnd(b, i)
    IN  IF e = 0 \/ e > Len(b) THEN 0
        ELSE IF b[e] = "]" THEN e + 1
        ELSE IF b[e] = "," THEN ElementsEnd(b, e + 1)
        ELSE 0

\* The position after the "}" that closes the members starting at i.
MembersEnd(b, i) ==
    IF i + 1 > Len(b) \/ b[i] # "\"k\"" \/ b[i + 1] # ":" THEN 0
    ELSE LET e == ValueEnd(b, i + 2)
         IN  IF e = 0 \/ e > Len(b) THEN 0
             ELSE IF b[e] = "}" THEN e + 1
             ELSE IF b[e] = "," THEN MembersEnd(b, e + 1)
             ELSE 0

\* b is exactly one complete JSON value.
IsOneValue(b) == ValueEnd(b, 1) = Len(b) + 1

\* C28: is_complete() is true only if the text written so far is exactly
\* one complete JSON value, every opened container closed and no second
\* top-level value written.  (A call that throws changes nothing, so every
\* state is also reached by calls none of which threw.)
C28_CompleteMeansOneValue == is_complete => IsOneValue(sbuf_)

---------------------------------------------------------------------------
(* Claims about block comments that are never closed                       *)
---------------------------------------------------------------------------
RECURSIVE ClosesAt(_, _)
\* The position after the first "*/" at or after byte p of t; 0 when there
\* is none.
ClosesAt(t, p) ==
    IF p + 1 > Len(t) THEN 0
    ELSE IF t[p] = "*" /\ t[p + 1] = "/" THEN p + 2
    ELSE ClosesAt(t, p + 1)

RECURSIVE HasOpenBlock(_, _)
\* Read off the text alone (it holds no strings): from byte p on, a "/*"
\* outside a comment has no "*/" after it.
HasOpenBlock(t, p) ==
    IF p + 1 > Len(t) THEN FALSE
    ELSE IF t[p] = "/" /\ t[p + 1] = "*"
         THEN ClosesAt(t, p + 2) = 0 \/ HasOpenBlock(t, ClosesAt(t, p + 2))
    ELSE IF t[p] = "/" /\ t[p + 1] = "/"
         THEN HasOpenBlock(t, LineEnd(t, p + 2))
    ELSE HasOpenBlock(t, p + 1)

\* C29: with allow_comments on, a text with a block comment that is opened
\* with "/*" and never closed before the end of the input is rejected.
C29_OpenBlockCommentRejected ==
    (/\ parsed.code # "none"
     /\ opts.allow_comments
     /\ HasOpenBlock(input, 1))
    => parsed.code # "ok"

---------------------------------------------------------------------------
(* Claims about StringOutput and StreamOutput                              *)
---------------------------------------------------------------------------
\* The runs of rs that hold bytes.
NonEmpty(rs) == SelectSeq(rs, LAMBDA r : r.n > 0)

\* C30: whatever single-byte and multi-byte writes were made, of sizes
\* below, at and above the buffer size, what the sink has delivered after a
\* flush is the written bytes in call order, each once, and the buffer is
\* empty.
C30_DeliveredIsWhatWasWritten ==
    olast = "flush" =>
        /\ NonEmpty(delivered) = NonEmpty(written)
        /\ pos_ = 0

\* A flushed sink that took a single byte while its buffer was full, a
\* write larger than the buffer and a write that did not fit in what was
\* left of the buffer.
C30_WitnessAllPaths ==
    /\ olast = "flush"
    /\ \E i \in DOMAIN written :
           /\ i > 1
           /\ written[i].n = 1
           /\ written[i - 1].n = kBufSize(sink)
    /\ \E i \in DOMAIN written : written[i].n > kBufSize(sink)
    /\ \E i \in DOMAIN written :
           /\ i > 1
           /\ written[i].n = 2
           /\ written[i - 1].n = kBufSize(sink) - 1

=============================================================================
